---- MODULE Spec2Model ----
(***************************************************************************)
(* A model of the EcoBridge native core (ecobridge-rust): the adaptive PID *)
(* controller, the pricing engine, the environmental multiplier, the       *)
(* transfer regulator, the hot history window and the boundary guard.      *)
(*                                                                         *)
(* Numbers.  An f64 is modelled as a fixed-point number with FS = 1000     *)
(* steps per unit (the integer x stands for x / 1000), together with the   *)
(* three IEEE specials NaN, +Inf and -Inf.  A finite result whose          *)
(* magnitude passes FMAX overflows to an infinity, as an f64 does past     *)
(* f64::MAX; results are truncated toward zero where an f64 rounds to      *)
(* nearest.  The scales of the program are scaled down with the numbers so *)
(* that everything fits TLC's 32-bit integers: MICROS_SCALE stands for     *)
(* 1_000_000 and is 10 here, MS_PER_DAY stands for 86_400_000 and is 10    *)
(* here, an i64 saturates at I64_MAX = 2^17 - 1.                           *)
(***************************************************************************)
EXTENDS Integers, Sequences, FiniteSets, TLC

VARIABLES
    pidState,   \* the PidState the host owns
    pidArgs,    \* the arguments of the last tick: <<target, current, dt, inflation, heat>>
    pidRet,     \* the value the last tick returned
    ticks,      \* ticks made so far
    xferCtx,    \* the TransferContext of the transfer check
    xferCfg,    \* its RegulatorConfig
    xferChecks, \* whether the build checks integer overflow (debug) or wraps (release)
    xferRes,    \* the TransferResult, once the check has returned
    priceArgs,  \* the arguments of the last bounded price
    priceRet,   \* what the core engine and the bounded price returned for them
    window,     \* HOT_HISTORY, the hot window of HistoryRecords
    winCall,    \* the last call on the window and its arguments
    winRet,     \* what the last query returned and which records it added up
    ffiCall,    \* the entry point of the last call across the boundary
    ffiBody,    \* how the body of that entry point ended
    ffiRet,     \* what the caller got back
    remoteFlow, \* REMOTE_FLOW_ACCUMULATOR_MICROS
    remoteLedger, \* the remote amounts accepted so far, and what queries returned of them
    neffPc,     \* where each caller of ecobridge_query_neff_vectorized stands
    epsCtx,     \* the TradeContext of the epsilon evaluation
    epsCfg,     \* its MarketConfig
    epsRet,     \* the factor it returned
    rwLock,     \* the RwLock of HOT_HISTORY: its writer and its readers
    hotHistory, \* HOT_HISTORY as the threads of the lock specification share it
    threadPc,   \* where each thread stands in append_trade_to_memory or query_neff_internal
    threadSeen, \* the window and the start index a query found when it searched
    lockRet,    \* what the last query that returned added up
    batchArgs,  \* the arguments of ecobridge_compute_batch_prices and the caller's arrays
    batchOut,   \* the caller's result buffer, one cell per index
    batchPending,\* the indices the workers have not evaluated yet
    batchPhase, \* whether the batch call is not made, running or returned
    batchRet,   \* the status the batch call returned
    tierArgs,   \* the arguments of the last tier price
    tierRet,    \* the price it returned
    macroCall,  \* the macro indicator last evaluated and its arguments
    macroRet,   \* whether it returned or panicked, and the value
    logSender,  \* whether LOG_SENDER is set
    logQueue,   \* the bounded channel to the writer thread, oldest event first
    totalLogs,  \* TOTAL_LOGS
    droppedLogs,\* DROPPED_LOGS
    globalHistory,\* GLOBAL_HISTORY, the timestamps of its records
    writerPc,   \* where the writer thread stands in writer_loop
    writerBuffer,\* the buffer of writer_loop
    dbRows,     \* the events committed to economy_log
    logLast,    \* what the last call of log_economy_event did
    signalled,  \* whether shutdown_db_internal queued its signal, and the events accepted before
    storeRet    \* what the last init_economy_db or shutdown_db_internal returned

pidVars == <<pidState, pidArgs, pidRet, ticks>>
xferVars == <<xferCtx, xferCfg, xferChecks, xferRes>>
priceVars == <<priceArgs, priceRet>>
windowVars == <<window, winCall, winRet>>
boundaryVars == <<ffiCall, ffiBody, ffiRet, remoteFlow, remoteLedger, neffPc>>
epsilonVars == <<epsCtx, epsCfg, epsRet>>
lockVars == <<rwLock, hotHistory, threadPc, threadSeen, lockRet>>
batchVars == <<batchArgs, batchOut, batchPending, batchPhase, batchRet>>
tierVars == <<tierArgs, tierRet>>
macroVars == <<macroCall, macroRet>>
storageVars == <<logSender, logQueue, totalLogs, droppedLogs, globalHistory,
                 writerPc, writerBuffer, dbRows, logLast, signalled, storeRet>>
vars == <<pidState, pidArgs, pidRet, ticks, xferCtx, xferCfg, xferChecks, xferRes,
          priceArgs, priceRet, window, winCall, winRet,
          ffiCall, ffiBody, ffiRet, remoteFlow, remoteLedger, neffPc,
          epsCtx, epsCfg, epsRet,
          rwLock, hotHistory, threadPc, threadSeen, lockRet,
          batchArgs, batchOut, batchPending, batchPhase, batchRet,
          tierArgs, tierRet,
          macroCall, macroRet,
          logSender, logQueue, totalLogs, droppedLogs, globalHistory,
          writerPc, writerBuffer, dbRows, logLast, signalled, storeRet>>

\* the state an operation of one component cannot touch
exceptPid == <<xferVars, priceVars, windowVars, boundaryVars, epsilonVars,
               lockVars, batchVars, tierVars, macroVars, storageVars>>
exceptXfer == <<pidVars, priceVars, windowVars, boundaryVars, epsilonVars,
                lockVars, batchVars, tierVars, macroVars, storageVars>>
exceptPrice == <<pidVars, xferVars, windowVars, boundaryVars, epsilonVars,
                 lockVars, batchVars, tierVars, macroVars, storageVars>>
exceptWindow == <<pidVars, xferVars, priceVars, boundaryVars, epsilonVars,
                  lockVars, batchVars, tierVars, macroVars, storageVars>>
exceptBoundary == <<pidVars, xferVars, priceVars, windowVars, epsilonVars,
                    lockVars, batchVars, tierVars, macroVars, storageVars>>
exceptEpsilon == <<pidVars, xferVars, priceVars, windowVars, boundaryVars,
                   lockVars, batchVars, tierVars, macroVars, storageVars>>
exceptLock == <<pidVars, xferVars, priceVars, windowVars, boundaryVars,
                epsilonVars, batchVars, tierVars, macroVars, storageVars>>
exceptBatch == <<pidVars, xferVars, priceVars, windowVars, boundaryVars,
                 epsilonVars, lockVars, tierVars, macroVars, storageVars>>
exceptTier == <<pidVars, xferVars, priceVars, windowVars, boundaryVars,
                epsilonVars, lockVars, batchVars, macroVars, storageVars>>
exceptMacro == <<pidVars, xferVars, priceVars, windowVars, boundaryVars,
                 epsilonVars, lockVars, batchVars, tierVars, storageVars>>
exceptStorage == <<pidVars, xferVars, priceVars, windowVars, boundaryVars,
                   epsilonVars, lockVars, batchVars, tierVars, macroVars>>

\* ------------------------------------------------------------------ f64

FS == 10 ^ 3
FMAX == 5 * (10 ^ 8)
PInf == 2 * (10 ^ 9)
NInf == -PInf
NaN == 21 * (10 ^ 8)

\* i64::MAX and i64::MIN, scaled to 18 bits
I64_MAX == (2 ^ 17) - 1
I64_MIN == -(2 ^ 17)

Abs(n) == IF n < 0 THEN -n ELSE n
Sign(n) == IF n < 0 THEN -1 ELSE 1

\* f64::is_finite, f64::is_nan
IsFinite(x) == x # NaN /\ x # PInf /\ x # NInf
IsNaN(x) == x = NaN

\* a finite result: overflow to an infinity past the largest finite value
Norm(n) == IF n > FMAX THEN PInf ELSE IF n < -FMAX THEN NInf ELSE n

\* unary minus
FNeg(x) == IF x = NaN THEN NaN ELSE -x

\* a + b
FAdd(a, b) ==
    IF a = NaN \/ b = NaN THEN NaN
    ELSE IF ~IsFinite(a) THEN (IF ~IsFinite(b) /\ b # a THEN NaN ELSE a)
    ELSE IF ~IsFinite(b) THEN b
    ELSE Norm(a + b)

\* a - b
FSub(a, b) == FAdd(a, FNeg(b))

\* |a| * |b| / FS for finite magnitudes, computed without leaving 32 bits
MulMag(a, b) ==
    LET qa == a \div FS
        ra == a % FS
        qb == b \div FS
        rb == b % FS
    IN  IF qa > 0 /\ qb > (FMAX \div FS) \div qa THEN PInf
        ELSE Norm((qa * qb * FS) + (qa * rb) + (ra * qb) + ((ra * rb) \div FS))

\* a * b
FMul(a, b) ==
    IF a = NaN \/ b = NaN THEN NaN
    ELSE IF ~IsFinite(a) \/ ~IsFinite(b)
         THEN (IF a = 0 \/ b = 0 THEN NaN
               ELSE IF Sign(a) = Sign(b) THEN PInf ELSE NInf)
    ELSE LET m == MulMag(Abs(a), Abs(b))
         IN  IF Sign(a) = Sign(b) THEN m ELSE -m

\* |a| / |b| * FS for finite magnitudes, b > 0
DivMag(a, b) ==
    LET q == a \div b
        r == a % b
    IN  IF q > FMAX \div FS THEN PInf
        ELSE Norm((q * FS) + (IF b <= 2 * (10 ^ 6) THEN (r * FS) \div b
                                                    ELSE r \div (b \div FS)))

\* a / b
FDiv(a, b) ==
    IF a = NaN \/ b = NaN THEN NaN
    ELSE IF ~IsFinite(a) THEN (IF ~IsFinite(b) THEN NaN
                               ELSE IF Sign(a) = Sign(b) THEN PInf ELSE NInf)
    ELSE IF ~IsFinite(b) THEN 0
    ELSE IF b = 0 THEN (IF a = 0 THEN NaN ELSE IF a > 0 THEN PInf ELSE NInf)
    ELSE LET m == DivMag(Abs(a), Abs(b))
         IN  IF Sign(a) = Sign(b) THEN m ELSE -m

\* comparisons: every comparison with a NaN is false
FLt(a, b) == a # NaN /\ b # NaN /\ a < b
FLe(a, b) == a # NaN /\ b # NaN /\ a <= b
FGt(a, b) == FLt(b, a)
FGe(a, b) == FLe(b, a)

\* f64::max and f64::min: a NaN operand is ignored
FMaxOf(a, b) == IF a = NaN THEN b ELSE IF b = NaN THEN a ELSE IF a > b THEN a ELSE b
FMinOf(a, b) == IF a = NaN THEN b ELSE IF b = NaN THEN a ELSE IF a < b THEN a ELSE b

\* f64::clamp(lo, hi) with lo <= hi: a NaN stays a NaN
FClamp(x, lo, hi) == IF x = NaN THEN NaN ELSE IF x < lo THEN lo ELSE IF x > hi THEN hi ELSE x

\* f64::abs
FAbs(x) == IF x = NaN THEN NaN ELSE Abs(x)

\* f64::mul_add: a * b + c
MulAdd(a, b, c) == FAdd(FMul(a, b), c)

\* i64 as f64
I2F(i) == i * FS

\* f64 as i64: truncates toward zero, saturates, NaN gives 0
F2I(x) ==
    IF x = NaN THEN 0
    ELSE LET t == Sign(x) * (Abs(x) \div FS)
         IN  IF x = PInf \/ t > I64_MAX THEN I64_MAX
             ELSE IF x = NInf \/ t < I64_MIN THEN I64_MIN
             ELSE t

\* e^n for the whole numbers -7 .. 13, in steps of 1 / FS
ExpInt(n) ==
    CASE n = -7 -> 0 [] n = -6 -> 2 [] n = -5 -> 6 [] n = -4 -> 18
      [] n = -3 -> 49 [] n = -2 -> 135 [] n = -1 -> 367 [] n = 0 -> 1000
      [] n = 1 -> 2718 [] n = 2 -> 7389 [] n = 3 -> 20085 [] n = 4 -> 54598
      [] n = 5 -> 148413 [] n = 6 -> 403428 [] n = 7 -> 1096633
      [] n = 8 -> 2980957 [] n = 9 -> 8103083 [] n = 10 -> 22026465
      [] n = 11 -> 59874141 [] n = 12 -> 162754791 [] n = 13 -> 442413392

\* e^f for 0 <= f < 1: 1 + f + f^2/2 + f^3/6 + f^4/24 + f^5/120
ExpFrac(f) ==
    LET f2 == (f * f) \div FS
        f3 == (f2 * f) \div FS
        f4 == (f3 * f) \div FS
        f5 == (f4 * f) \div FS
    IN  FS + f + (f2 \div 2) + (f3 \div 6) + (f4 \div 24) + (f5 \div 120)

\* f64::exp
Exp(x) ==
    IF x = NaN THEN NaN
    ELSE IF x = PInf THEN PInf
    ELSE IF x = NInf THEN 0
    ELSE LET n == IF x >= 0 THEN x \div FS ELSE -((-x + FS - 1) \div FS)
             f == x - (n * FS)
         IN  IF n < -7 THEN 0
             ELSE IF n > 13 THEN PInf
             ELSE MulMag(ExpInt(n), ExpFrac(f))

\* f64::tanh: 1 - 2 / (e^(2x) + 1)
Tanh(x) ==
    IF x = NaN THEN NaN
    ELSE IF x >= 5 * FS THEN FS
    ELSE IF x <= -5 * FS THEN -FS
    ELSE LET e == Exp(2 * Abs(x))
             t == FS - ((2 * FS * FS) \div (e + FS))
         IN  IF x >= 0 THEN t ELSE -t

\* the whole part of the square root of n >= 0, by bisection between lo and hi
RECURSIVE ISqrt(_, _, _)
ISqrt(n, lo, hi) ==
    IF hi - lo <= 1 THEN lo
    ELSE LET mid == (lo + hi) \div 2
         IN  IF mid * mid <= n THEN ISqrt(n, mid, hi) ELSE ISqrt(n, lo, mid)

\* f64::sqrt: a NaN for a negative number
Sqrt(x) ==
    IF x = NaN \/ x < 0 THEN NaN
    ELSE IF x = PInf THEN PInf
    ELSE IF x <= 2 * (10 ^ 6) THEN ISqrt(x * FS, 0, 46340)
    ELSE ISqrt(x \div FS, 0, 46340) * FS

\* i64 arithmetic: the result of an overflowing operation, wrapped to the width
WrapI64(n) == ((n - I64_MIN) % (2 * (I64_MAX + 1))) + I64_MIN
OverflowsI64(n) == n > I64_MAX \/ n < I64_MIN

\* i64 / i64: the quotient truncated toward zero
DivI64(a, b) == Sign(a) * Sign(b) * (Abs(a) \div Abs(b))

\* --------------------------------------------- economy/control.rs (PID)

\* 30.0
DEFAULT_INTEGRATION_LIMIT == 30 * FS
\* 1.0
MAX_SAFE_DT == 1 * FS
\* 1e-6: below one fixed-point step
MIN_TIME_STEP == 0
\* 0.5
OUTPUT_MIN_CLAMP == FS \div 2
\* 5.0
OUTPUT_MAX_CLAMP == 5 * FS
\* 1.0
OUTPUT_BASELINE == 1 * FS
\* 0.99999: the largest fixed-point number below 1
INTEGRAL_DECAY == FS - 1
\* 0.2
BACK_CALC_GAIN == FS \div 5
\* 0.3
DERIVATIVE_FILTER_ALPHA == (3 * FS) \div 10
\* 50.0
PANIC_THRESHOLD == 50 * FS
\* 1.8
PANIC_DAMPING == (18 * FS) \div 10
\* 0.5
HEAT_SENSITIVITY == FS \div 2
\* mutant: a saturation test that no output passes
SATURATION_EPS_Unreachable == FMAX

\* the 1e-6 of the saturation test, which stands at one fixed-point step
SATURATION_EPS == 1

\* control.rs sigmoid: 1 / (1 + e^(-x))
sigmoid(x) == FDiv(FS, FAdd(FS, Exp(FNeg(x))))

\* (adaptive_kp, adaptive_ki)
compute_adaptive_gain(cfg, heat) ==
    LET sensitivity == Tanh(FMul(heat, HEAT_SENSITIVITY))
    IN  [kp |-> FMul(cfg.kp, FAdd(FS, sensitivity)),
         ki |-> FMul(cfg.ki, FSub(FS, FMul(sensitivity, FS \div 2)))]

\* mutant: the input check without the test for a negative dt
PidInputRejected_NoNegativeDt(target_vel, current_vel, dt, inflation, market_heat) ==
    \/ ~IsFinite(target_vel)
    \/ ~IsFinite(current_vel)
    \/ ~IsFinite(dt)
    \/ ~IsFinite(inflation)
    \/ ~IsFinite(market_heat)

\* the input check of a tick: TRUE when the tick short-circuits
PidInputRejected(target_vel, current_vel, dt, inflation, market_heat) ==
    \/ ~IsFinite(target_vel)
    \/ ~IsFinite(current_vel)
    \/ ~IsFinite(dt)
    \/ FLt(dt, 0)
    \/ ~IsFinite(inflation)
    \/ ~IsFinite(market_heat)

\* mutant: the clamped output returned without the is_finite test
PidReturn_Unchecked(final_output) == final_output

\* what a tick returns at the end: the clamped output, or the baseline for a NaN
PidReturn(final_output) == IF IsFinite(final_output) THEN final_output ELSE OUTPUT_BASELINE

\* mutant: the integral never advances by back-calculation
BackCalculates_Never(pid) == FALSE

\* the integral of a tick advances by back-calculation: pid.is_saturated != 0
BackCalculates(pid) == pid.is_saturated # 0

\* one tick: [pid |-> the state after it, out |-> the value returned], with the
\* raw and the clamped output it worked out
compute_pid_adjustment_internal(pid, target_vel, current_vel, dt, inflation, market_heat) ==
    IF PidInputRejected(target_vel, current_vel, dt, inflation, market_heat)
    THEN [pid |-> pid, out |-> OUTPUT_BASELINE,
          raw_output |-> OUTPUT_BASELINE, final_output |-> OUTPUT_BASELINE]
    ELSE
    LET error == FSub(target_vel, current_vel)
        dt_safe == FClamp(dt, 0, MAX_SAFE_DT)
        base == compute_adaptive_gain(pid, market_heat)
        schedule_gamma == FAdd(FS, sigmoid(FMul(FSub(inflation, FS \div 20), 20 * FS)))
        active_kp == FMul(base.kp, schedule_gamma)
        active_ki == FMul(base.ki, schedule_gamma)
        combined_leakage == FMul(FSub(FS, FClamp(pid.lambda, 0, FS)), INTEGRAL_DECAY)
        integral1 ==
            IF BackCalculates(pid)
            THEN MulAdd(pid.integral, combined_leakage,
                        FMul(FMul(error, BACK_CALC_GAIN), dt_safe))
            ELSE MulAdd(pid.integral, combined_leakage, FMul(error, dt_safe))
        limit == IF FGt(pid.integration_limit, 0) THEN pid.integration_limit
                 ELSE DEFAULT_INTEGRATION_LIMIT
        integral2 == FClamp(integral1, FNeg(limit), limit)
        delta_pv == FSub(current_vel, pid.prev_pv)
        raw_derivative == IF FGt(dt_safe, MIN_TIME_STEP) THEN FDiv(delta_pv, dt_safe) ELSE 0
        filtered_d == MulAdd(DERIVATIVE_FILTER_ALPHA, raw_derivative,
                             FMul(FSub(FS, DERIVATIVE_FILTER_ALPHA), pid.filtered_d))
        d_multiplier == IF FGt(FAbs(filtered_d), PANIC_THRESHOLD) THEN PANIC_DAMPING ELSE FS
        p_term == FMul(active_kp, error)
        i_term == FMul(active_ki, integral2)
        d_term == FMul(FMul(pid.kd, filtered_d), d_multiplier)
        raw_output == FSub(FAdd(FAdd(OUTPUT_BASELINE, p_term), i_term), d_term)
        final_output == FClamp(raw_output, OUTPUT_MIN_CLAMP, OUTPUT_MAX_CLAMP)
        saturated == IF FGt(FAbs(FSub(raw_output, final_output)), SATURATION_EPS) THEN 1 ELSE 0
    IN  [pid |-> [pid EXCEPT !.integral = integral2,
                             !.filtered_d = filtered_d,
                             !.prev_pv = current_vel,
                             !.is_saturated = saturated],
         out |-> PidReturn(final_output),
         raw_output |-> raw_output, final_output |-> final_output]

\* PidState::default()
PidStateDefault ==
    [kp |-> FS \div 2, ki |-> FS \div 10, kd |-> FS \div 20, lambda |-> FS \div 100,
     integral |-> 0, prev_pv |-> 0, filtered_d |-> 0,
     integration_limit |-> 30 * FS, is_saturated |-> 0]

\* ecobridge_reset_pid_state
PidReset ==
    /\ pidState' = PidStateDefault
    /\ UNCHANGED <<pidArgs, pidRet, ticks>>
    /\ UNCHANGED exceptPid

\* ticks of one behaviour
MaxTicks == 3

\* the controller states a behaviour starts from: the default, the states of the
\* tests, and states with a non-finite or out-of-range field
PidStates ==
    { PidStateDefault,
      [PidStateDefault EXCEPT !.ki = 10 * FS],
      [PidStateDefault EXCEPT !.kd = 1 * FS],
      [PidStateDefault EXCEPT !.kp = NaN],
      [PidStateDefault EXCEPT !.kd = PInf],
      [PidStateDefault EXCEPT !.lambda = NaN],
      [PidStateDefault EXCEPT !.lambda = 2 * FS],
      [PidStateDefault EXCEPT !.integration_limit = 0],
      [PidStateDefault EXCEPT !.integration_limit = NaN],
      [PidStateDefault EXCEPT !.integration_limit = PInf, !.ki = 10 * FS],
      [PidStateDefault EXCEPT !.integration_limit = -5 * FS],
      [PidStateDefault EXCEPT !.integral = NaN],
      [PidStateDefault EXCEPT !.integral = 100 * FS, !.is_saturated = 1],
      [PidStateDefault EXCEPT !.filtered_d = PInf],
      [PidStateDefault EXCEPT !.prev_pv = NaN] }

\* the arguments of a tick: <<target, current, dt, inflation, heat>>; two of them
\* bring the raw output of the default controller to 5.0 and to 5.0 + 1e-6
PidInputs ==
    { <<100 * FS, 50 * FS, FS \div 10, 0, 1 * FS>>,
      <<10 * FS, 0, FS \div 10, 0, 1 * FS>>,
      <<10 * FS, 80 * FS, FS \div 10, 0, 1 * FS>>,
      <<100 * FS, 95 * FS, 1 * FS, FS \div 50, FS \div 20>>,
      <<0, 100 * FS, 2 * FS, FS \div 10, 0>>,
      <<50 * FS, 50 * FS, 0, 0, 0>>,
      <<4 * FS, 0, 0, 1 * FS, 0>>,
      <<(4 * FS) + 1, 0, 0, 1 * FS, 0>>,
      <<FMAX, -FMAX, 1 * FS, 0, 10 * FS>>,
      <<FMAX, -FMAX, 0, 0, 0>>,
      <<100 * FS, 50 * FS, -(FS \div 10), 0, 1 * FS>>,
      <<100 * FS, 50 * FS, NaN, 0, 1 * FS>>,
      <<100 * FS, 50 * FS, PInf, 0, 1 * FS>>,
      <<NaN, 50 * FS, FS \div 10, 0, 1 * FS>>,
      <<100 * FS, NInf, FS \div 10, 0, 1 * FS>>,
      <<100 * FS, 50 * FS, FS \div 10, PInf, 1 * FS>>,
      <<100 * FS, 50 * FS, FS \div 10, 0, NaN>> }

\* ecobridge_compute_pid_adjustment on a non-null state and result
PidTick ==
    /\ ticks < MaxTicks
    /\ \E a \in PidInputs :
         LET r == compute_pid_adjustment_internal(pidState, a[1], a[2], a[3], a[4], a[5])
         IN  /\ pidState' = r.pid
             /\ pidRet' = r.out
             /\ pidArgs' = a
             /\ ticks' = ticks + 1
    /\ UNCHANGED exceptPid

PidInit ==
    /\ pidState \in PidStates
    /\ pidArgs = <<0, 0, 0, 0, 0>>
    /\ pidRet = 0
    /\ ticks = 0

PidNext == PidTick \/ PidReset

\* C1: whatever the controller state and the arguments, and after any ticks before
\* it, the value a tick returns lies in [0.5, 5.0]
C1_OutputInRange ==
    ticks > 0 => (IsFinite(pidRet) /\ pidRet >= FS \div 2 /\ pidRet <= 5 * FS)

\* a tick on a state with a NaN gain, which makes the raw output a NaN, has
\* returned, and so has a tick whose output was clamped
C1_Witness ==
    /\ ticks > 1
    /\ pidState.kp = NaN
    /\ ~PidInputRejected(pidArgs[1], pidArgs[2], pidArgs[3], pidArgs[4], pidArgs[5])
    /\ pidRet = OUTPUT_BASELINE

\* C9: a tick whose dt is non-finite or negative, or whose target, current,
\* inflation or heat is non-finite, returns exactly 1.0 and changes no field of the
\* controller state
C9_BadArgs(a) ==
    \/ a[3] \in {NaN, PInf, NInf}
    \/ a[3] < 0
    \/ a[1] \in {NaN, PInf, NInf}
    \/ a[2] \in {NaN, PInf, NInf}
    \/ a[4] \in {NaN, PInf, NInf}
    \/ a[5] \in {NaN, PInf, NInf}

C9_RejectedTickIsNeutral ==
    [][(ticks' = ticks + 1 /\ C9_BadArgs(pidArgs'))
          => (pidState' = pidState /\ pidRet' = 1 * FS)]_vars

\* a tick with a negative dt has returned on a state that earlier ticks had moved
C9_Witness ==
    /\ ticks >= 2
    /\ pidArgs[3] = -(FS \div 10)
    /\ pidState.integral # 0
    /\ pidState.prev_pv # 0
    /\ pidRet = OUTPUT_BASELINE

\* the ticks of the sustained-error run (the 0..100 of test_anti_windup_mechanism)
SUSTAINED_TICKS == 100

\* the arguments of its ticks: target 100, current 50, dt 0.1, inflation 0, heat 1
SustainedInput == <<100 * FS, 50 * FS, FS \div 10, 0, 1 * FS>>

\* the states the run starts from: PidState::default(), and the state of the test,
\* the default with ki = 10
SustainedInit ==
    /\ pidState \in {PidStateDefault, [PidStateDefault EXCEPT !.ki = 10 * FS]}
    /\ pidArgs = <<0, 0, 0, 0, 0>>
    /\ pidRet = 0
    /\ ticks = 0

\* one more tick of the run
SustainedTick ==
    /\ ticks < SUSTAINED_TICKS
    /\ LET a == SustainedInput
           r == compute_pid_adjustment_internal(pidState, a[1], a[2], a[3], a[4], a[5])
       IN  /\ pidState' = r.pid
           /\ pidRet' = r.out
           /\ pidArgs' = a
           /\ ticks' = ticks + 1
    /\ UNCHANGED exceptPid

SustainedNext == SustainedTick

\* C15: after 100 consecutive ticks with target 100, current 50, dt 0.1, heat 1 and
\* inflation 0 from a default state the saturation flag of the controller is 1
C15_SustainedErrorSaturates ==
    ticks = SUSTAINED_TICKS => pidState.is_saturated = 1

\* the hundredth tick has returned from the default state: the output is clamped
\* at 5.0, the integral stands at its limit and the flag is set
C15_Witness ==
    /\ ticks = SUSTAINED_TICKS
    /\ pidState.ki = FS \div 10
    /\ pidArgs = SustainedInput
    /\ pidRet = OUTPUT_MAX_CLAMP
    /\ pidState.integral = pidState.integration_limit
    /\ pidState.is_saturated = 1

\* a step of the controller is a tick with arguments a that was not short-circuited
C26_TickStep(a) ==
    /\ ticks' = ticks + 1
    /\ pidArgs' = a
    /\ ~PidInputRejected(a[1], a[2], a[3], a[4], a[5])

\* the raw and the clamped output of a tick with arguments a
C26_Outputs(a) == compute_pid_adjustment_internal(pidState, a[1], a[2], a[3], a[4], a[5])

\* the integral a tick with arguments a stores, the flag of pid selecting the term
\* that is accumulated: error x 0.2 x dt when it is set, error x dt otherwise
C26_NextIntegral(pid, a) ==
    LET error == FSub(a[1], a[2])
        dt_safe == FClamp(a[3], 0, MAX_SAFE_DT)
        leakage == FMul(FSub(FS, FClamp(pid.lambda, 0, FS)), INTEGRAL_DECAY)
        term == IF pid.is_saturated = 0
                THEN FMul(error, dt_safe)
                ELSE FMul(FMul(error, BACK_CALC_GAIN), dt_safe)
        limit == IF FGt(pid.integration_limit, 0) THEN pid.integration_limit
                 ELSE DEFAULT_INTEGRATION_LIMIT
    IN  FClamp(MulAdd(pid.integral, leakage, term), FNeg(limit), limit)

\* C26 as stated: after every tick that is not short-circuited the flag is 1 exactly
\* when clamping to [0.5, 5.0] altered the raw output, and the flag the tick found
\* selects the term its integral update accumulates
C26_FlagSetByAnyAlteration ==
    [][\A a \in PidInputs : C26_TickStep(a) =>
         LET r == C26_Outputs(a)
         IN  /\ pidState'.is_saturated = (IF r.raw_output # r.final_output THEN 1 ELSE 0)
             /\ pidState'.integral = C26_NextIntegral(pidState, a)]_vars

\* C26, amended: after every tick that is not short-circuited the flag is 1 exactly
\* when clamping to [0.5, 5.0] altered the raw output by more than 1e-6, and 0
\* otherwise; the flag the tick found, written by the tick before it, selects
\* back-calculation (error x 0.2 x dt instead of error x dt) for its integral update
C26_FlagSetByAlterationOverTolerance ==
    [][\A a \in PidInputs : C26_TickStep(a) =>
         LET r == C26_Outputs(a)
         IN  /\ pidState'.is_saturated =
                    (IF FGt(FAbs(FSub(r.raw_output, r.final_output)), SATURATION_EPS)
                     THEN 1 ELSE 0)
             /\ pidState'.integral = C26_NextIntegral(pidState, a)]_vars

\* the second tick of a large error on the default controller: the first one was
\* clamped and set the flag, so the integral went from 5.0 to 5.0 x 0.98901 + 50 x
\* 0.2 x 0.1 = 5.945 and not to 9.945
C26_Witness ==
    /\ ticks = 2
    /\ pidArgs = <<100 * FS, 50 * FS, FS \div 10, 0, 1 * FS>>
    /\ pidRet = OUTPUT_MAX_CLAMP
    /\ pidState.is_saturated = 1
    /\ pidState.integral = 5945
    /\ pidState.ki = FS \div 10

\* the limit of the integral: integration_limit when it is > 0, 30 otherwise
C27_Limit ==
    IF FGt(pidState.integration_limit, 0) THEN pidState.integration_limit
    ELSE DEFAULT_INTEGRATION_LIMIT

\* C27: after every tick that is not short-circuited, whatever ticks came before it,
\* saturated or not, the stored integral satisfies |integral| <= L, where L is the
\* integration_limit of the state when that is > 0 and 30 otherwise
C27_IntegralWithinLimit ==
    (/\ ticks > 0
     /\ ~PidInputRejected(pidArgs[1], pidArgs[2], pidArgs[3], pidArgs[4], pidArgs[5]))
    => FLe(FAbs(pidState.integral), C27_Limit)

\* ------------------------------------------------ security/regulator.rs

CODE_NORMAL == 0
CODE_WARNING_HIGH_RISK == 1
CODE_BLOCK_VELOCITY_LIMIT == 5
CODE_BLOCK_QUANTITY_LIMIT == 6

\* 1_000_000.0, scaled: one unit is 10 micros
MICROS_SCALE == 10 * FS

\* 3600.0 seconds in an hour
SECONDS_PER_HOUR == 3600 * FS

\* the dynamic limit in micros: min(base + growth * sqrt(hours), max) as i64
final_limit_micros(ctx) ==
    LET play_hours == FDiv(I2F(ctx.sender_play_time), SECONDS_PER_HOUR)
        base_limit == FDiv(I2F(ctx.item_base_limit), MICROS_SCALE)
        max_limit == FDiv(I2F(ctx.item_max_limit), MICROS_SCALE)
        calculated_limit == FAdd(base_limit, FMul(ctx.item_growth_rate, Sqrt(play_hours)))
        final_limit == FMinOf(calculated_limit, max_limit)
    IN  F2I(FMul(final_limit, MICROS_SCALE))

\* mutant: the quantity test on whole units instead of micros
QuantityBlocked_WholeUnits(amount_micros, limit_micros) ==
    (amount_micros \div 10) > (limit_micros \div 10) /\ limit_micros > 0

\* step 1: the quantity-limit test
QuantityBlocked(amount_micros, limit_micros) ==
    amount_micros > limit_micros /\ limit_micros > 0

\* mutant: the puppet factor without the doubling for a low activity score
puppet_factor_NoLowActivityRule(ctx) ==
    FDiv(ctx.sender_velocity, FMaxOf(ctx.sender_activity_score, FS \div 10))

\* step 2: the puppet factor
puppet_factor(ctx) ==
    IF FLt(ctx.sender_activity_score, FS \div 10)
    THEN FMul(ctx.sender_velocity, 2 * FS)
    ELSE FDiv(ctx.sender_velocity, FMaxOf(ctx.sender_activity_score, FS \div 10))

\* mutant: the tax without its cap
TaxCap_Missing(tax_f64, amount_f64) == tax_f64

\* step 4: the cap of the tax at 80% of the amount
TaxCap(tax_f64, amount_f64) == FMinOf(tax_f64, FMul(amount_f64, (8 * FS) \div 10))

\* step 4: the tax before the conversion to micros
tax_clamped(ctx, cfg) ==
    LET amount_f64 == FDiv(I2F(ctx.amount_micros), MICROS_SCALE)
        sender_bal_f64 == FDiv(I2F(ctx.sender_balance), MICROS_SCALE)
        receiver_bal_f64 == FDiv(I2F(ctx.receiver_balance), MICROS_SCALE)
        inflation_adj == FAdd(FS, FMaxOf(ctx.inflation_rate, 0))
        tax0 == FMul(FMul(amount_f64, cfg.base_tax_rate), inflation_adj)
        behavioral_penalty == Exp(FMul(ctx.sender_velocity, FS \div 20))
        tax1 == FMul(tax0, behavioral_penalty)
        luxury_threshold_f64 == FDiv(I2F(cfg.luxury_threshold), MICROS_SCALE)
        tax2 == IF FGt(amount_f64, luxury_threshold_f64)
                THEN MulAdd(FSub(amount_f64, luxury_threshold_f64), cfg.luxury_tax_rate, tax1)
                ELSE tax1
        poor_threshold_f64 == FDiv(I2F(cfg.poor_threshold), MICROS_SCALE)
        rich_threshold_f64 == FDiv(I2F(cfg.rich_threshold), MICROS_SCALE)
        tax3 == IF FLt(sender_bal_f64, poor_threshold_f64)
                   /\ FGt(receiver_bal_f64, rich_threshold_f64)
                THEN FMaxOf(tax2, FMul(amount_f64, cfg.wealth_gap_tax_rate))
                ELSE tax2
    IN  TaxCap(tax3, amount_f64)

\* the tax as i64 micros
final_tax_micros(ctx, cfg) == F2I(FMul(tax_clamped(ctx, cfg), MICROS_SCALE))

\* the check of one transfer.  checks is the build's overflow-checks setting: the
\* product final_limit_micros * 85 panics with it and wraps without it
compute_transfer_check_internal(ctx, cfg, checks) ==
    LET limit == final_limit_micros(ctx)
        puppet == puppet_factor(ctx)
        product == limit * 85
        warn_limit == DivI64(WrapI64(product), 100)
    IN  IF QuantityBlocked(ctx.amount_micros, limit)
        THEN [panicked |-> FALSE, final_tax_micros |-> 0, is_blocked |-> 1,
              warning_code |-> CODE_BLOCK_QUANTITY_LIMIT]
        ELSE IF FGt(puppet, cfg.velocity_threshold)
        THEN [panicked |-> FALSE, final_tax_micros |-> 0, is_blocked |-> 1,
              warning_code |-> CODE_BLOCK_VELOCITY_LIMIT]
        ELSE IF checks /\ OverflowsI64(product)
        THEN [panicked |-> TRUE, final_tax_micros |-> 0, is_blocked |-> 0,
              warning_code |-> CODE_NORMAL]
        ELSE [panicked |-> FALSE,
              final_tax_micros |-> final_tax_micros(ctx, cfg),
              is_blocked |-> 0,
              warning_code |->
                  IF ctx.amount_micros > warn_limit
                     \/ FGt(puppet, FMul(cfg.velocity_threshold, (7 * FS) \div 10))
                  THEN CODE_WARNING_HIGH_RISK ELSE CODE_NORMAL]

\* TransferContext::default() and RegulatorConfig::default(), in scaled micros
TransferContextDefault ==
    [amount_micros |-> 0, sender_balance |-> 0, receiver_balance |-> 0,
     inflation_rate |-> 0, item_base_limit |-> 0, item_growth_rate |-> 0,
     item_max_limit |-> 0, sender_play_time |-> 0,
     sender_activity_score |-> 0, sender_velocity |-> 0]

RegulatorConfigDefault ==
    [base_tax_rate |-> FS \div 20, luxury_threshold |-> 40,
     luxury_tax_rate |-> FS \div 10, wealth_gap_tax_rate |-> FS \div 5,
     poor_threshold |-> 100, rich_threshold |-> 1000,
     velocity_threshold |-> 20 * FS]

\* the result record before the check has run
NoTransferResult ==
    [called |-> FALSE, panicked |-> FALSE, final_tax_micros |-> 0,
     is_blocked |-> 0, warning_code |-> 0]

\* the transfers checked: amounts below, at and above the limits, negative and
\* zero amounts, a large amount under an uncapped limit, limits that are zero,
\* capped and uncapped, non-finite coefficients
TransferContexts ==
    [amount_micros : {-3, 0, 3, 51, 90, 101, 260, 5000},
     sender_balance : {50, 5000},
     receiver_balance : {2000},
     inflation_rate : {0},
     item_base_limit : {0, 50},
     item_growth_rate : {0, 10 * FS, NaN, PInf},
     item_max_limit : {0, 100, I64_MAX},
     sender_play_time : {-3600, 14400},
     sender_activity_score : {FS \div 20, FS \div 2, NaN},
     sender_velocity : {5 * FS, 15 * FS}]

RegulatorConfigs ==
    [base_tax_rate : {FS \div 20, 2 * FS, -(FS \div 10), NaN},
     luxury_threshold : {40},
     luxury_tax_rate : {FS \div 10},
     wealth_gap_tax_rate : {FS \div 5},
     poor_threshold : {100},
     rich_threshold : {1000},
     velocity_threshold : {20 * FS}]

XferInit ==
    /\ xferCtx \in TransferContexts
    /\ xferCfg \in RegulatorConfigs
    /\ xferChecks \in BOOLEAN
    /\ xferRes = NoTransferResult

\* ecobridge_compute_transfer_check on non-null pointers
TransferCheck ==
    /\ ~xferRes.called
    /\ LET r == compute_transfer_check_internal(xferCtx, xferCfg, xferChecks)
       IN  xferRes' = [called |-> TRUE, panicked |-> r.panicked,
                       final_tax_micros |-> r.final_tax_micros,
                       is_blocked |-> r.is_blocked,
                       warning_code |-> r.warning_code]
    /\ UNCHANGED <<xferCtx, xferCfg, xferChecks>>
    /\ UNCHANGED exceptXfer

\* C3 as stated: every transfer whose amount exceeds the dynamic limit in micros is
\* blocked with QUANTITY_LIMIT, whatever the limit parameters
C3_ExceedingIsBlocked ==
    (xferRes.called /\ xferCtx.amount_micros > final_limit_micros(xferCtx))
        => (xferRes.is_blocked = 1 /\ xferRes.warning_code = 6)

\* C3 amended: every transfer whose amount exceeds a dynamic limit that is positive
\* in micros is blocked with QUANTITY_LIMIT and pays no tax; with a limit of zero
\* or less the quantity step blocks nothing
C3_ExceedingPositiveLimitIsBlocked ==
    xferRes.called =>
        /\ (xferCtx.amount_micros > final_limit_micros(xferCtx)
              /\ final_limit_micros(xferCtx) > 0)
             => (xferRes.is_blocked = 1 /\ xferRes.warning_code = 6
                   /\ xferRes.final_tax_micros = 0 /\ ~xferRes.panicked)
        /\ final_limit_micros(xferCtx) <= 0 => xferRes.warning_code # 6

\* a transfer one micro over a positive limit has been blocked
C3_Witness ==
    /\ xferRes.called
    /\ final_limit_micros(xferCtx) = 100
    /\ xferCtx.amount_micros = 101
    /\ xferRes.is_blocked = 1
    /\ xferRes.warning_code = 6

C10_StatedPuppet(ctx) ==
    IF FLt(ctx.sender_activity_score, FS \div 10)
    THEN FMul(ctx.sender_velocity, 2 * FS)
    ELSE FDiv(ctx.sender_velocity, ctx.sender_activity_score)

\* the puppet factor of the amended C10: an activity score that is not below 0.1
\* divides the velocity, and a NaN score counts as 0.1
C10_AmendedPuppet(ctx) ==
    IF ctx.sender_activity_score # NaN /\ ctx.sender_activity_score < FS \div 10
    THEN FMul(ctx.sender_velocity, 2 * FS)
    ELSE IF ctx.sender_activity_score = NaN
    THEN FMul(ctx.sender_velocity, 10 * FS)
    ELSE FDiv(ctx.sender_velocity, ctx.sender_activity_score)

\* C10 as stated: a transfer that passes the quantity step is blocked with
\* VELOCITY_LIMIT exactly when velocity x 2 (activity below 0.1) or
\* velocity / activity (otherwise) exceeds the threshold
C10_VelocityBlockAsStated ==
    (xferRes.called /\ xferRes.warning_code # 6)
        => ((xferRes.is_blocked = 1 /\ xferRes.warning_code = 5)
              <=> FGt(C10_StatedPuppet(xferCtx), xferCfg.velocity_threshold))

\* C10 amended: the same with velocity / max(activity, 0.1), so that a NaN
\* activity score gives velocity x 10; the amount and the balances play no part
C10_VelocityBlock ==
    (xferRes.called /\ xferRes.warning_code # 6)
        => ((xferRes.is_blocked = 1 /\ xferRes.warning_code = 5)
              <=> FGt(C10_AmendedPuppet(xferCtx), xferCfg.velocity_threshold))

\* a transfer under its quantity limit has been blocked for its velocity, by the
\* low-activity rule
C10_Witness ==
    /\ xferRes.called
    /\ xferCtx.amount_micros = 90
    /\ final_limit_micros(xferCtx) = 100
    /\ xferCtx.sender_activity_score = FS \div 20
    /\ xferCtx.sender_velocity = 15 * FS
    /\ xferRes.is_blocked = 1
    /\ xferRes.warning_code = 5

\* C18 as stated: a transfer that is not blocked carries HIGH_RISK exactly when its
\* amount exceeds 85% of the dynamic limit in micros or its puppet factor exceeds
\* 70% of the velocity threshold, and NORMAL otherwise; HIGH_RISK comes with no
\* block
C18_HighRiskWarning ==
    (xferRes.called /\ xferRes.is_blocked = 0) =>
        /\ ~xferRes.panicked
        /\ xferRes.warning_code \in {CODE_NORMAL, CODE_WARNING_HIGH_RISK}
        /\ (xferRes.warning_code = CODE_WARNING_HIGH_RISK)
             <=> \/ 100 * xferCtx.amount_micros > 85 * final_limit_micros(xferCtx)
                 \/ FGt(puppet_factor(xferCtx),
                        FMul(xferCfg.velocity_threshold, (7 * FS) \div 10))

\* ---------------------------------------------------------------- pricing

\* the absolute floor of a price, 0.01 currency units
MIN_PHYSICAL_PRICE == FS \div 100

\* compute_price_behavioral_core
compute_price_behavioral_core(base_price_micros, n_eff, trade_amount_micros, lambda, epsilon) ==
    LET base_price_f64 == FDiv(I2F(base_price_micros), MICROS_SCALE)
        trade_amount_f64 == FDiv(I2F(trade_amount_micros), MICROS_SCALE)
        adj_lambda == IF trade_amount_micros > 0
                      THEN FMul(lambda, (6 * FS) \div 10)
                      ELSE lambda
        total_n == FAdd(n_eff, trade_amount_f64)
        raw_exponent == FClamp(FMul(FNeg(adj_lambda), total_n), -100 * FS, 100 * FS)
        clamped_exponent == FMul(10 * FS, Tanh(FDiv(raw_exponent, 10 * FS)))
        final_price == FMul(FMul(base_price_f64, epsilon), Exp(clamped_exponent))
    IN  IF ~IsFinite(base_price_f64) \/ ~IsFinite(n_eff)
           \/ ~IsFinite(lambda) \/ ~IsFinite(epsilon)
        THEN MIN_PHYSICAL_PRICE
        ELSE FMaxOf(final_price, MIN_PHYSICAL_PRICE)

\* mutant: the floor without the share of the historical average
PriceFloor_AbsoluteOnly(hist_avg) == MIN_PHYSICAL_PRICE

\* the dynamic floor: 20% of the historical average, at least 0.01
PriceFloor(hist_avg) == FMaxOf(FMul(hist_avg, FS \div 5), MIN_PHYSICAL_PRICE)

\* compute_price_bounded_internal
compute_price_bounded_internal(base_micros, n_eff, amt_micros, lambda, eps, hist_avg) ==
    LET raw_price == compute_price_behavioral_core(base_micros, n_eff, amt_micros, lambda, eps)
        floor == PriceFloor(hist_avg)
    IN  IF FLt(raw_price, floor) THEN floor ELSE raw_price

\* the arguments of a bounded price: base prices and amounts of either sign and at
\* the ends of i64, volumes up to the largest finite one, factors that are zero,
\* negative and non-finite, historical averages of every kind
PriceInputs ==
    [base_micros : {0, 1000, -50, I64_MAX, I64_MIN},
     n_eff : {0, 5 * FS, 400000 * FS, -20 * FS, NaN, PInf},
     amt_micros : {0, 30, -30},
     lambda : {FS \div 100, FS \div 2, -(FS \div 2), NaN},
     eps : {FS, FS \div 10, 10 * FS, 0, -FS, NaN},
     hist_avg : {0, 100 * FS, FS \div 50, -5 * FS, FMAX, NaN, PInf, NInf}]

NoPriceArgs ==
    [base_micros |-> 0, n_eff |-> 0, amt_micros |-> 0, lambda |-> 0, eps |-> 0,
     hist_avg |-> 0]

NoPriceResult == [called |-> FALSE, core |-> 0, price |-> 0]

PriceQuiet ==
    /\ priceArgs = NoPriceArgs
    /\ priceRet = NoPriceResult

\* one evaluation of compute_price_bounded_internal, a pure function; core records
\* what the core engine returned for the same arguments
PriceBounded ==
    /\ ~priceRet.called
    /\ \E a \in PriceInputs :
         /\ priceArgs' = a
         /\ priceRet' =
              [called |-> TRUE,
               core |-> compute_price_behavioral_core(a.base_micros, a.n_eff,
                            a.amt_micros, a.lambda, a.eps),
               price |-> compute_price_bounded_internal(a.base_micros, a.n_eff,
                            a.amt_micros, a.lambda, a.eps, a.hist_avg)]
    /\ UNCHANGED exceptPrice

\* C2: a bounded price is never below max(0.01, 0.2 x hist_avg), for every base
\* price, volume, amount, lambda and epsilon, and a core price at or above that
\* floor is returned unchanged
C2_PriceAtLeastFloor ==
    priceRet.called =>
        LET floor == FMaxOf(FS \div 100, FMul(priceArgs.hist_avg, FS \div 5))
        IN  /\ priceRet.price # NaN
            /\ FGe(priceRet.price, floor)
            /\ FGe(priceRet.core, floor) => priceRet.price = priceRet.core

\* a price that an extreme volume drove to the absolute floor has been raised to
\* 20% of the historical average
C2_Witness ==
    /\ priceRet.called
    /\ priceArgs.n_eff = 400000 * FS
    /\ priceArgs.lambda = FS \div 2
    /\ priceArgs.hist_avg = 100 * FS
    /\ priceRet.core = FS \div 100
    /\ priceRet.price = 20 * FS

\* ------------------------------------------------------- history window

\* one day in milliseconds, as an f64 (86_400_000.0 in the program)
MS_PER_DAY == 10 * FS

\* the tolerance for timestamps ahead of the clock, in ms (60_000 in the program)
MAX_FUTURE_TOLERANCE == 2

\* the cap of the window and the length it is pruned to (500_000 and 400_000 in
\* the program)
MAX_HISTORY_SIZE == 4
PRUNE_TO_SIZE == 3

IsSorted(history) ==
    \A i \in 1..Len(history) : \A j \in 1..Len(history) :
        i < j => history[i].timestamp <= history[j].timestamp

\* mutant: the records are removed at the back
Drain_FromBack(history, n) == SubSeq(history, 1, Len(history) - n)

\* Vec::drain(0..n)
Drain(history, n) == SubSeq(history, n + 1, Len(history))

\* mutant: the new record goes in front of the window
append_trade_to_memory_PushFront(history, ts, amount) ==
    <<[timestamp |-> ts, amount_micros |-> F2I(FMul(amount, MICROS_SCALE))]>> \o history

\* append_trade_to_memory: push, then prune the oldest records past the cap
append_trade_to_memory(history, ts, amount) ==
    LET pushed == Append(history,
                      [timestamp |-> ts, amount_micros |-> F2I(FMul(amount, MICROS_SCALE))])
    IN  IF Len(pushed) > MAX_HISTORY_SIZE
        THEN Drain(pushed, Len(pushed) - PRUNE_TO_SIZE)
        ELSE pushed

\* slice::partition_point(|r| r.timestamp < limit): the index of the first record
\* that fails the test when the records that pass it all come first, and an
\* unspecified index otherwise
PartitionPoints(history, limit) ==
    LET passing == {i \in 1..Len(history) : history[i].timestamp < limit}
    IN  IF \A i \in passing : \A j \in 1..i : j \in passing
        THEN {Cardinality(passing)}
        ELSE 0..Len(history)

\* the records of the slice the scalar path adds up: all but the future ones
ScalarKeep(slice, valid_future) ==
    [i \in 1..Len(slice) |-> slice[i].timestamp <= valid_future]

\* mutant: the vector path leaves out the records after the last whole chunk
SimdKeep_NoRemainder(slice, valid_future, valid_past) ==
    [i \in 1..Len(slice) |->
        LET t0 == (4 * ((i - 1) \div 4)) + 1
            t3 == t0 + 3
            in_range == slice[i].timestamp <= valid_future
                          /\ slice[i].timestamp >= valid_past
        IN  IF t3 <= Len(slice)
            THEN IF slice[t3].timestamp > valid_future \/ slice[t0].timestamp < valid_past
                 THEN in_range
                 ELSE TRUE
            ELSE FALSE]

\* the records of the slice compute_partial_simd adds up: a whole chunk of four
\* whose first record is not too old and whose last is not in the future, else
\* the records of the chunk, or of the remainder, that are in range
SimdKeep(slice, valid_future, valid_past) ==
    [i \in 1..Len(slice) |->
        LET t0 == (4 * ((i - 1) \div 4)) + 1
            t3 == t0 + 3
            in_range == slice[i].timestamp <= valid_future
                          /\ slice[i].timestamp >= valid_past
        IN  IF t3 <= Len(slice)
            THEN IF slice[t3].timestamp > valid_future \/ slice[t0].timestamp < valid_past
                 THEN in_range
                 ELSE TRUE
            ELSE in_range]

\* the sum of amount * exp((timestamp - t_min) * lambda) over the kept records
RECURSIVE PartialSum(_, _, _, _, _)
PartialSum(slice, keep, t_min, lambda, i) ==
    IF i > Len(slice) THEN 0
    ELSE LET dt_rel == I2F(slice[i].timestamp - t_min)
             val == FMul(I2F(slice[i].amount_micros), Exp(FMul(dt_rel, lambda)))
         IN  FAdd(IF keep[i] THEN val ELSE 0,
                  PartialSum(slice, keep, t_min, lambda, i + 1))

\* mutant: a lookback of tau days
LookbackMs_OneTau(tau) == F2I(FMul(tau, MS_PER_DAY))

\* the lookback of a query in ms: (tau * MS_PER_DAY * 10.0) as i64
LookbackMs(tau) == F2I(FMul(FMul(tau, MS_PER_DAY), 10 * FS))

NoQueryResult == [called |-> FALSE, panicked |-> FALSE, result |-> 0, used |-> {}]

\* calculate_volume_in_memory.  avx2 is what is_x86_feature_detected!("avx2")
\* says, start_idx what partition_point returned, checks the build's
\* overflow-checks setting.  used is the set of window positions whose records
\* were added up
calculate_volume_in_memory(history, current_time, tau, avx2, start_idx, checks) ==
    LET future_sum == current_time + MAX_FUTURE_TOLERANCE
        past_diff == current_time - LookbackMs(tau)
        valid_future_limit == WrapI64(future_sum)
        valid_past_limit == WrapI64(past_diff)
        relevant_slice == SubSeq(history, start_idx + 1, Len(history))
        t_min == relevant_slice[1].timestamp
        lambda == FDiv(FS, FMul(tau, MS_PER_DAY))
        base_multiplier == Exp(FMul(FNeg(I2F(current_time - t_min)), lambda))
        keep == IF avx2
                THEN SimdKeep(relevant_slice, valid_future_limit, valid_past_limit)
                ELSE ScalarKeep(relevant_slice, valid_future_limit)
        sum_partial == PartialSum(relevant_slice, keep, t_min, lambda, 1)
        result == FMul(FDiv(sum_partial, MICROS_SCALE), base_multiplier)
    IN  IF history = <<>> \/ FLe(tau, 0)
        THEN [NoQueryResult EXCEPT !.called = TRUE]
        ELSE IF checks /\ (OverflowsI64(future_sum) \/ OverflowsI64(past_diff))
        THEN [NoQueryResult EXCEPT !.called = TRUE, !.panicked = TRUE]
        ELSE IF relevant_slice = <<>>
        THEN [NoQueryResult EXCEPT !.called = TRUE]
        ELSE [called |-> TRUE, panicked |-> FALSE,
              result |-> IF IsFinite(result) THEN result ELSE 0,
              used |-> {start_idx + i : i \in {k \in 1..Len(relevant_slice) : keep[k]}}]

\* the timestamps of the trades, around a clock of 200: older than ten days, ten
\* days old, older than one day and past the tolerance
TradeTimestamps == {99, 100, 185, 203}

\* the amounts of the trades, in units
TradeAmounts == {FS \div 10}

HistoryRecordOf(ts) == [timestamp |-> ts, amount_micros |-> 1]

\* what load_recent_history can return: the rows of the log in the order of
\* ORDER BY ts ASC, none when there is no read pool, more than the cap of the window
HydrateLoads ==
    {<<>>,
     <<HistoryRecordOf(185)>>,
     <<HistoryRecordOf(99), HistoryRecordOf(100), HistoryRecordOf(100)>>,
     <<HistoryRecordOf(99), HistoryRecordOf(100), HistoryRecordOf(185),
       HistoryRecordOf(185), HistoryRecordOf(202), HistoryRecordOf(203)>>}

\* the queries: <<current_ts, tau, avx2, checks>>, with a tau of one and of two
\* days, a tau that is zero or NaN, and a clock at the end of i64, where the build's
\* overflow-checks setting shows
QueryInputs ==
    {<<200, FS, FALSE, FALSE>>, <<200, FS, TRUE, FALSE>>, <<200, 2 * FS, FALSE, TRUE>>,
     <<200, 2 * FS, TRUE, TRUE>>, <<200, 0, TRUE, FALSE>>, <<200, NaN, FALSE, FALSE>>,
     <<I64_MAX - 1, FS, FALSE, FALSE>>, <<I64_MAX - 1, FS, FALSE, TRUE>>}

NoWindowCall ==
    [op |-> "none", ts |-> 0, tau |-> 0, avx2 |-> FALSE, start_idx |-> 0,
     checks |-> FALSE]

WindowQuiet ==
    /\ window = <<>>
    /\ winCall = NoWindowCall
    /\ winRet = NoQueryResult

\* hydrate_hot_store: the window becomes what the log returned
HydrateHotStore ==
    /\ \E records \in HydrateLoads : window' = records
    /\ winCall' = [NoWindowCall EXCEPT !.op = "hydrate"]
    /\ winRet' = NoQueryResult
    /\ UNCHANGED exceptWindow

\* append_trade_to_memory(ts, amount) under the write lock
AppendTrade ==
    /\ \E ts \in TradeTimestamps, amount \in TradeAmounts :
         /\ window' = append_trade_to_memory(window, ts, amount)
         /\ winCall' = [NoWindowCall EXCEPT !.op = "append", !.ts = ts]
    /\ winRet' = NoQueryResult
    /\ UNCHANGED exceptWindow

\* query_neff_internal(current_ts, tau) under the read lock
QueryNeff ==
    /\ \E q \in QueryInputs :
         \E start_idx \in PartitionPoints(window, WrapI64(q[1] - LookbackMs(q[2]))) :
            /\ winRet' = calculate_volume_in_memory(window, q[1], q[2], q[3],
                                                    start_idx, q[4])
            /\ winCall' = [op |-> "query", ts |-> q[1], tau |-> q[2], avx2 |-> q[3],
                           start_idx |-> start_idx, checks |-> q[4]]
    /\ UNCHANGED window
    /\ UNCHANGED exceptWindow

WindowNext == HydrateHotStore \/ AppendTrade \/ QueryNeff

\* C5 as stated: after any hydrate and append calls, with arbitrary timestamps, the
\* window is timestamp-non-decreasing
C5_WindowSorted == IsSorted(window)

\* C5 amended: a hydrate leaves the window timestamp-non-decreasing, and an append
\* whose timestamp is not before that of the last record keeps a non-decreasing
\* window non-decreasing, pruning included
C5_MonotoneAppendKeepsOrder ==
    [][/\ winCall'.op = "hydrate" => IsSorted(window')
       /\ (/\ winCall'.op = "append"
           /\ IsSorted(window)
           /\ (window = <<>> \/ winCall'.ts >= window[Len(window)].timestamp))
            => IsSorted(window')]_vars

\* appends in time order have filled the window past its cap and it was pruned
C5_Witness ==
    /\ winCall.op = "append"
    /\ winCall.ts = 203
    /\ Len(window) = PRUNE_TO_SIZE
    /\ window[1].timestamp = 100
    /\ window[2].timestamp = 185
    /\ IsSorted(window)

\* the positions of the window whose timestamps lie between lo and hi
C6_Between(lo, hi) ==
    {i \in 1..Len(window) : lo <= window[i].timestamp /\ window[i].timestamp <= hi}

\* a query with a positive tau whose limits fit an i64 has returned
C6_Queried ==
    /\ winCall.op = "query"
    /\ winRet.called /\ ~winRet.panicked
    /\ IsFinite(winCall.tau) /\ winCall.tau > 0
    /\ ~OverflowsI64(winCall.ts + MAX_FUTURE_TOLERANCE)

C28_NewRecordLast ==
    /\ window'[Len(window')].timestamp = winCall'.ts
    /\ window'[Len(window')].amount_micros \in
           {F2I(FMul(amount, MICROS_SCALE)) : amount \in TradeAmounts}

\* C28: an append that makes the window exceed the cap (500,000 records) removes the
\* oldest records at the front in one step and leaves the 400,000 most recently
\* stored records in their order with the new record last; an append that does not
\* exceed the cap removes nothing and changes no record
C28_AppendPrunesOldestOnly ==
    [][winCall'.op = "append" =>
         IF Len(window) + 1 > MAX_HISTORY_SIZE
         THEN /\ Len(window') = PRUNE_TO_SIZE
              /\ \A i \in 1..(PRUNE_TO_SIZE - 1) :
                    window'[i] = window[Len(window) - (PRUNE_TO_SIZE - 1) + i]
              /\ C28_NewRecordLast
         ELSE /\ Len(window') = Len(window) + 1
              /\ \A i \in 1..Len(window) : window'[i] = window[i]
              /\ C28_NewRecordLast]_vars

\* an append has pruned: the two newest rows of the largest load are the front of a
\* window of 400,000 (here 3) records and the appended record is the last
C28_Witness ==
    /\ winCall.op = "append"
    /\ Len(window) = PRUNE_TO_SIZE
    /\ window[1].timestamp = 202
    /\ window[2].timestamp = 203
    /\ window[3].timestamp = winCall.ts

\* C11 as stated: after any hydrate and append calls the window holds at most
\* MAX_HISTORY_SIZE records
C11_WindowAtMostCap == Len(window) <= MAX_HISTORY_SIZE

\* what the last query returns on the other of the two paths, for the same window,
\* slice, clock and tau
C12_OtherPath ==
    calculate_volume_in_memory(window, winCall.ts, winCall.tau, ~winCall.avx2,
                               winCall.start_idx, winCall.checks)

\* a and b are equal within a relative tolerance of 1e-6
C12_Close(a, b) ==
    \/ a = b
    \/ /\ IsFinite(a) /\ IsFinite(b)
       /\ Abs(a - b) < 2000
       /\ Abs(a - b) * 1000000 <= (IF Abs(a) > Abs(b) THEN Abs(a) ELSE Abs(b))

\* the two paths add up the same records and return the same sum
C12_Agree ==
    /\ winRet.panicked = C12_OtherPath.panicked
    /\ winRet.used = C12_OtherPath.used
    /\ C12_Close(winRet.result, C12_OtherPath.result)

C19_NothingInLookback ==
    \A i \in 1..Len(window) :
        window[i].timestamp < winCall.ts - LookbackMs(winCall.tau)

\* C19 as stated: for every window, clock and tau a query returns a finite value,
\* and returns 0.0 when the window is empty, when tau <= 0 or when no record lies
\* inside the lookback
C19_QueryIsFailSoft ==
    (winCall.op = "query") =>
        /\ winRet.called /\ ~winRet.panicked
        /\ IsFinite(winRet.result)
        /\ (window = <<>> \/ FLe(winCall.tau, 0) \/ C19_NothingInLookback)
              => winRet.result = 0

\* ------------------------------------------------------------- boundary

\* the status codes of the boundary
EconStatus ==
    [Ok |-> 0, NullPointer |-> 1, InvalidLength |-> 2, InvalidValue |-> 3,
     NumericOverflow |-> 10, InternalError |-> 100, Panic |-> 101, Fatal |-> 255]

\* what ecobridge_abi_version returns, 0x0009_0000
ABI_VERSION == 9 * (2 ^ 16)

\* the body of an entry point ran to a status, or panicked
Returned(status) == [panicked |-> FALSE, status |-> status]
Panicked == [panicked |-> TRUE, status |-> 0]

\* ffi_guard!: catch_unwind around the body, a caught panic becomes Panic
ffi_guard(body) ==
    [kind |-> "status",
     code |-> IF body.panicked THEN EconStatus.Panic ELSE body.status]

\* an entry point without ffi_guard!: a panic of the body unwinds into the caller
Unguarded(body) ==
    IF body.panicked
    THEN [kind |-> "unwound", code |-> 0]
    ELSE [kind |-> "status", code |-> body.status]

\* the statuses the body of each entry point wrapped in ffi_guard! returns
GuardedStatuses ==
    [ecobridge_init_db |->
        {EconStatus.NullPointer, EconStatus.InvalidValue, EconStatus.Ok, EconStatus.Fatal},
     ecobridge_shutdown_db |-> {EconStatus.Ok},
     ecobridge_log_to_duckdb |-> {EconStatus.NullPointer, EconStatus.Ok},
     ecobridge_compute_batch_prices |->
        {EconStatus.NullPointer, EconStatus.Ok, EconStatus.InvalidLength},
     ecobridge_compute_price_final |-> {EconStatus.NullPointer, EconStatus.Ok},
     ecobridge_compute_tier_price |-> {EconStatus.NullPointer, EconStatus.Ok},
     ecobridge_compute_price_humane |-> {EconStatus.NullPointer, EconStatus.Ok},
     ecobridge_compute_price_bounded |-> {EconStatus.NullPointer, EconStatus.Ok},
     ecobridge_calc_inflation |->
        {EconStatus.NullPointer, EconStatus.InvalidValue, EconStatus.Ok},
     ecobridge_calc_stability |-> {EconStatus.NullPointer, EconStatus.Ok},
     ecobridge_calc_decay |-> {EconStatus.NullPointer, EconStatus.Ok},
     ecobridge_get_health_stats |-> {EconStatus.NullPointer, EconStatus.Ok},
     ecobridge_calculate_epsilon |-> {EconStatus.NullPointer, EconStatus.Ok},
     ecobridge_compute_transfer_check |-> {EconStatus.NullPointer, EconStatus.Ok},
     ecobridge_get_dynamic_limit |-> {EconStatus.NullPointer, EconStatus.Ok},
     ecobridge_compute_pid_adjustment |-> {EconStatus.NullPointer, EconStatus.Ok},
     ecobridge_reset_pid_state |-> {EconStatus.NullPointer, EconStatus.Ok}]

\* the remote trades injected: small ones of either sign, i64::MAX, and i64::MIN,
\* whose absolute value does not fit an i64
RemoteAmounts == {3, -4, I64_MAX, I64_MIN}

\* the threads of the host that call ecobridge_query_neff_vectorized
NeffCallers == {"n1", "n2"}

\* remote_neff: the accumulated micros as f64, over MICROS_SCALE
remote_neff(remote_micros) == FDiv(I2F(remote_micros), MICROS_SCALE)

\* injections are made while the amounts injected so far are below this
MaxRemoteFlow == 8

NoBody == Returned(0)
NoReturn == [kind |-> "none", code |-> 0]

BoundaryQuiet ==
    /\ ffiCall = "none"
    /\ ffiBody = NoBody
    /\ ffiRet = NoReturn
    /\ remoteFlow = 0
    /\ remoteLedger = [injected |-> 0, returned |-> 0]
    /\ neffPc = [n \in NeffCallers |-> "idle"]

\* ecobridge_init_threading: no ffi_guard! around rayon's build_global
CallInitThreading ==
    /\ \E body \in {Panicked, Returned(EconStatus.Ok), Returned(EconStatus.InternalError)} :
         /\ ffiBody' = body
         /\ ffiRet' = Unguarded(body)
    /\ ffiCall' = "ecobridge_init_threading"
    /\ UNCHANGED <<remoteFlow, remoteLedger, neffPc>>
    /\ UNCHANGED exceptBoundary

\* ecobridge_abi_version and ecobridge_version: constants, no status
CallVersion ==
    /\ \/ /\ ffiCall' = "ecobridge_abi_version"
          /\ ffiRet' = [kind |-> "value", code |-> ABI_VERSION]
       \/ /\ ffiCall' = "ecobridge_version"
          /\ ffiRet' = [kind |-> "pointer", code |-> 0]
    /\ ffiBody' = NoBody
    /\ UNCHANGED <<remoteFlow, remoteLedger, neffPc>>
    /\ UNCHANGED exceptBoundary

\* an entry point whose body is wrapped in ffi_guard!
CallGuarded ==
    /\ \E entry \in DOMAIN GuardedStatuses :
         \E body \in {Panicked} \cup {Returned(s) : s \in GuardedStatuses[entry]} :
            /\ ffiCall' = entry
            /\ ffiBody' = body
            /\ ffiRet' = ffi_guard(body)
    /\ UNCHANGED <<remoteFlow, remoteLedger, neffPc>>
    /\ UNCHANGED exceptBoundary

\* inject_remote_trade: fetch_add(amount_micros.abs()); the abs of i64::MIN panics
\* in a build with overflow checks and is i64::MIN without; fetch_add wraps around
\* on overflow in every build
InjectRemoteTrade ==
    /\ remoteLedger.injected < MaxRemoteFlow
    /\ \E amount_micros \in RemoteAmounts, checks \in BOOLEAN :
         IF checks /\ OverflowsI64(Abs(amount_micros))
         THEN /\ ffiBody' = Panicked
              /\ ffiRet' = ffi_guard(Panicked)
              /\ UNCHANGED <<remoteFlow, remoteLedger>>
         ELSE /\ ffiBody' = Returned(EconStatus.Ok)
              /\ ffiRet' = ffi_guard(Returned(EconStatus.Ok))
              /\ remoteFlow' = WrapI64(remoteFlow + WrapI64(Abs(amount_micros)))
              /\ remoteLedger' = [remoteLedger EXCEPT
                                     !.injected = @ + Abs(amount_micros)]
    /\ ffiCall' = "inject_remote_trade"
    /\ UNCHANGED neffPc
    /\ UNCHANGED exceptBoundary

\* ecobridge_query_neff_vectorized, up to the swap: the arguments passed the checks
\* and query_neff_internal returned the local sum
QueryNeffLocal ==
    /\ \E n \in NeffCallers :
         /\ neffPc[n] = "idle"
         /\ neffPc' = [neffPc EXCEPT ![n] = "summed"]
    /\ UNCHANGED <<ffiCall, ffiBody, ffiRet, remoteFlow, remoteLedger>>
    /\ UNCHANGED exceptBoundary

\* ecobridge_query_neff_vectorized returns: with NullPointer or InvalidValue from
\* the checks of its arguments or with Panic from the local query, before the
\* accumulator is looked at, or with Ok after the swap of the accumulator to 0 and
\* the write of local_neff + remote_neff
QueryNeffVectorized ==
    /\ \E n \in NeffCallers :
         \/ /\ neffPc[n] = "idle"
            /\ \E body \in {Panicked, Returned(EconStatus.NullPointer),
                             Returned(EconStatus.InvalidValue)} :
                  /\ ffiBody' = body
                  /\ ffiRet' = ffi_guard(body)
            /\ UNCHANGED <<remoteFlow, remoteLedger, neffPc>>
         \/ /\ neffPc[n] = "summed"
            /\ ffiBody' = Returned(EconStatus.Ok)
            /\ ffiRet' = ffi_guard(Returned(EconStatus.Ok))
            /\ remoteFlow' = 0
            /\ remoteLedger' = [remoteLedger EXCEPT
                                   !.returned = FAdd(@, remote_neff(remoteFlow))]
            /\ neffPc' = [neffPc EXCEPT ![n] = "idle"]
    /\ ffiCall' = "ecobridge_query_neff_vectorized"
    /\ UNCHANGED exceptBoundary

BoundaryNext ==
    \/ CallInitThreading
    \/ CallVersion
    \/ CallGuarded
    \/ InjectRemoteTrade
    \/ QueryNeffLocal
    \/ QueryNeffVectorized

\* C7: every entry point returns a status code, and a panic inside an entry point
\* never unwinds across the boundary but is returned as status Panic (101)
C7_EveryEntryReturnsStatus ==
    ffiCall # "none" =>
        /\ ffiRet.kind = "status"
        /\ ffiBody.panicked => ffiRet.code = 101

\* every remote amount accepted so far is in the result of one successful query
\* or still in the accumulator
C29_EveryAmountAccounted ==
    FAdd(remoteLedger.returned, remote_neff(remoteFlow)) = remote_neff(remoteLedger.injected)

\* a step after which the last call is a query rejected with NullPointer or
\* InvalidValue
C29_QueryRejected ==
    /\ ffiCall' = "ecobridge_query_neff_vectorized"
    /\ ffiRet'.code \in {EconStatus.NullPointer, EconStatus.InvalidValue}

\* C29: under any interleaving of inject_remote_trade and
\* ecobridge_query_neff_vectorized calls every injected remote amount is added to
\* the result of exactly one successful query, never lost and never counted twice,
\* the accumulator is never negative, and a query rejected with NullPointer or
\* InvalidValue leaves the accumulator unchanged
C29_RemoteFlowDeliveredOnce ==
    /\ [](C29_EveryAmountAccounted /\ remoteFlow >= 0)
    /\ [][C29_QueryRejected => remoteFlow' = remoteFlow]_vars

\* ------------------------------------------------- environmental factor

\* std::f64::consts::PI
PI == 3142

\* f64::sin, by Bhaskara's formula 16 h (pi - h) / (5 pi^2 - 4 h (pi - h)) on the
\* half period; a non-finite argument gives NaN
Sin(x) ==
    IF ~IsFinite(x) THEN NaN
    ELSE LET r == x % (2 * PI)
             h == IF r > PI THEN r - PI ELSE r
             p == (h * (PI - h)) \div FS
             v == (16 * p * FS) \div (((5 * PI * PI) \div FS) - (4 * p))
         IN  IF r > PI THEN -v ELSE v

\* the largest y between lo and hi with exp(y) <= x
RECURSIVE LnBisect(_, _, _)
LnBisect(x, lo, hi) ==
    IF hi - lo <= 1 THEN lo
    ELSE LET mid == (lo + hi) \div 2
         IN  IF Exp(mid) <= x THEN LnBisect(x, mid, hi) ELSE LnBisect(x, lo, mid)

\* f64::ln
Ln(x) ==
    IF x = NaN \/ x < 0 THEN NaN
    ELSE IF x = 0 THEN NInf
    ELSE IF x = PInf THEN PInf
    ELSE LnBisect(x, -7 * FS, 14 * FS)

\* f64::floor() as i64
FloorI64(x) ==
    IF x = NaN THEN 0
    ELSE IF x = PInf THEN I64_MAX
    ELSE IF x = NInf THEN I64_MIN
    ELSE x \div FS

\* the lengths of a day, a week and a month in seconds (86400, 604800 and 2592000
\* in the program; a model day has 8 seconds)
SECONDS_PER_DAY == 8 * FS
SECONDS_PER_WEEK == 56 * FS
SECONDS_PER_MONTH == 240 * FS

\* the sigmoid of environment.rs: 1 / (1 + exp(-10 x))
environment_sigmoid(x) == FDiv(FS, FAdd(FS, Exp(FMul(FNeg(x), 10 * FS))))

\* the closure safe_ln
safe_ln(factor) == Ln(FMaxOf(factor, FS \div 100))

\* the seasonal wave of one period
Wave(ts_sec_local, period) ==
    Sin(FDiv(FMul(FMul(ts_sec_local, 2 * FS), PI), period))

\* the local time of the trade in seconds: the UTC timestamp in ms, shifted
ts_sec_local(ctx) ==
    FAdd(FDiv(I2F(ctx.current_timestamp), 1000 * FS), I2F(ctx.timezone_offset))

\* the day of the week the program works out for the trade, which it reads as
\* 0 = Monday .. 6 = Sunday: (day_index + 4).rem_euclid(7)
day_of_week(ctx) ==
    LET day_index == FloorI64(FDiv(ts_sec_local(ctx), SECONDS_PER_DAY))
    IN  (day_index + 4) % 7

\* the weekend sub-factor f_wk
weekend_factor(ctx, cfg) ==
    IF day_of_week(ctx) >= 5 THEN cfg.weekend_multiplier ELSE FS

\* mutant: the decay of the protection is not clamped
protection_decay_Unclamped(ctx) ==
    LET play_hours == FDiv(I2F(ctx.play_time_seconds), SECONDS_PER_HOUR)
    IN  FSub(FS, FDiv(play_hours, 100 * FS))

\* the share of the protection a player still has: (1.0 - play_hours / 100.0)
\* clamped to [0, 1]
protection_decay(ctx) ==
    LET play_hours == FDiv(I2F(ctx.play_time_seconds), SECONDS_PER_HOUR)
    IN  FClamp(FSub(FS, FDiv(play_hours, 100 * FS)), 0, FS)

\* epsilon before the final clamp
EpsilonUnclamped(ctx, cfg) ==
    LET day_wave == Wave(ts_sec_local(ctx), SECONDS_PER_DAY)
        week_wave == Wave(ts_sec_local(ctx), SECONDS_PER_WEEK)
        month_wave == Wave(ts_sec_local(ctx), SECONDS_PER_MONTH)
        seasonal_factor == FAdd(FAdd(FMul((6 * FS) \div 10, day_wave),
                                     FMul((3 * FS) \div 10, week_wave)),
                                FMul(FS \div 10, month_wave))
        f_sea0 == FAdd(FS, FMul(cfg.seasonal_amplitude, seasonal_factor))
        f_sea == IF (ctx.newbie_mask \div 2) % 2 = 1
                 THEN FMul(f_sea0, (115 * FS) \div 100)
                 ELSE f_sea0
        f_wk == weekend_factor(ctx, cfg)
        f_nb == FSub(FS, FMul(cfg.newbie_protection_rate, protection_decay(ctx)))
        sigmoid_trigger == environment_sigmoid(FSub(ctx.inflation_rate, FS \div 20))
        f_inf == FAdd(FS, FMul(FMul(ctx.inflation_rate, FS \div 5), sigmoid_trigger))
        log_eps == FAdd(FAdd(FAdd(FMul(cfg.seasonal_weight, safe_ln(f_sea)),
                                  FMul(cfg.weekend_weight, safe_ln(f_wk))),
                             FMul(cfg.newbie_weight, safe_ln(f_nb))),
                        FMul(cfg.inflation_weight, safe_ln(f_inf)))
        epsilon == Exp(log_eps)
    IN  IF FGt(cfg.volatility_factor, FS + 1)
        THEN FAdd(FS, FMul(FSub(epsilon, FS), cfg.volatility_factor))
        ELSE epsilon

\* calculate_epsilon_internal
calculate_epsilon_internal(ctx, cfg) ==
    FClamp(EpsilonUnclamped(ctx, cfg), FS \div 10, 10 * FS)

\* MarketConfig::default()
MarketConfigDefault ==
    [base_lambda |-> FS \div 10, volatility_factor |-> FS,
     seasonal_amplitude |-> (15 * FS) \div 100, weekend_multiplier |-> (12 * FS) \div 10,
     newbie_protection_rate |-> FS \div 5,
     seasonal_weight |-> FS \div 4, weekend_weight |-> FS \div 4,
     newbie_weight |-> FS \div 4, inflation_weight |-> FS \div 4]

\* TradeContext::default()
TradeContextDefault ==
    [base_price_micros |-> 0, current_amount |-> 0, inflation_rate |-> 0,
     current_timestamp |-> 0, play_time_seconds |-> 0, timezone_offset |-> 0,
     newbie_mask |-> 0, market_heat |-> 0, eco_saturation |-> 0]

\* the trade contexts: timestamps on the first four days of the epoch (a Thursday
\* to a Sunday), two time zones, a new and an older player, the festival bit,
\* inflation that is zero, high and NaN
TradeContexts ==
    {[TradeContextDefault EXCEPT !.current_timestamp = ts, !.timezone_offset = tz,
                                 !.play_time_seconds = pt, !.newbie_mask = mask,
                                 !.inflation_rate = infl] :
        ts \in {3000, 10000, 17000, 25000}, tz \in {0, -4}, pt \in {0, 36000}, mask \in {0, 2},
        infl \in {0, FS \div 10, NaN}}

\* the market configurations: the defaults, and a volatility, an amplitude, a
\* protection rate and a weight that are large, an infinite weekend multiplier, a
\* weekend weight of zero and a seasonal weight that is NaN
MarketConfigs ==
    {[MarketConfigDefault EXCEPT !.volatility_factor = vf, !.seasonal_amplitude = amp,
                                 !.weekend_multiplier = wm,
                                 !.newbie_protection_rate = rate,
                                 !.seasonal_weight = sw, !.weekend_weight = ww,
                                 !.newbie_weight = nw] :
        vf \in {FS, 2 * FS}, amp \in {(15 * FS) \div 100, 2 * FS},
        wm \in {(12 * FS) \div 10, PInf}, rate \in {FS \div 5, 2 * FS},
        sw \in {FS \div 4, NaN}, ww \in {FS \div 4, 0}, nw \in {FS \div 4, 4 * FS}}

\* the contexts of players at -1, 0, 25, 50, 75, 100 and 200 played hours (the
\* play time is only ever converted to an f64), on a weekday and on a day the
\* program takes for a weekend day, with no and with infinite inflation
PlayTimeContexts ==
    {[TradeContextDefault EXCEPT !.play_time_seconds = pt, !.current_timestamp = ts,
                                 !.inflation_rate = infl] :
        pt \in {-3600, 0, 90000, 180000, 270000, 360000, 720000}, ts \in {3000, 10000},
        infl \in {0, PInf}}

\* the configurations of test_v1_6_progressive_protection: the protection weight
\* 1.0, the other weights 0.0 and the volatility 1.0, with protection rates from
\* negative to more than the whole price and NaN, and a default and an infinite
\* weekend multiplier
ProtectionOnlyConfigs ==
    {[MarketConfigDefault EXCEPT !.seasonal_weight = 0, !.weekend_weight = 0,
                                 !.inflation_weight = 0, !.newbie_weight = FS,
                                 !.volatility_factor = FS,
                                 !.newbie_protection_rate = rate,
                                 !.weekend_multiplier = wm] :
        rate \in {-20 * FS, 0 - (FS \div 2), 0, FS \div 5, FS \div 2, (9 * FS) \div 10,
                  (95 * FS) \div 100, 2 * FS, NaN},
        wm \in {(12 * FS) \div 10, PInf}}

NoEpsilonResult == [called |-> FALSE, epsilon |-> 0, f_wk |-> 0]

EpsilonQuiet ==
    /\ epsCtx = TradeContextDefault
    /\ epsCfg = MarketConfigDefault
    /\ epsRet = NoEpsilonResult

\* one evaluation of calculate_epsilon_internal, a pure function; f_wk records the
\* weekend sub-factor it worked with
CalculateEpsilon ==
    /\ ~epsRet.called
    /\ \E ctx \in TradeContexts \cup PlayTimeContexts,
          cfg \in MarketConfigs \cup ProtectionOnlyConfigs :
         /\ epsCtx' = ctx
         /\ epsCfg' = cfg
         /\ epsRet' = [called |-> TRUE, epsilon |-> calculate_epsilon_internal(ctx, cfg),
                       f_wk |-> weekend_factor(ctx, cfg)]
    /\ UNCHANGED exceptEpsilon

EpsilonNext == CalculateEpsilon

\* C8: for every TradeContext and MarketConfig the factor returned by
\* calculate_epsilon_internal lies in [0.1, 10.0]
C8_EpsilonInRange ==
    epsRet.called =>
        /\ IsFinite(epsRet.epsilon)
        /\ epsRet.epsilon >= FS \div 10
        /\ epsRet.epsilon <= 10 * FS

\* the day of the week of the local calendar, 0 = Monday .. 6 = Sunday, of a
\* trade: day 0 of the epoch, 1970-01-01, was a Thursday
C16_CalendarDayOfWeek ==
    LET local_sec == (epsCtx.current_timestamp \div 1000) + epsCtx.timezone_offset
        day_index == local_sec \div (SECONDS_PER_DAY \div FS)
    IN  (day_index + 3) % 7

\* C16 as stated: the weekend sub-factor is the configured multiplier exactly on
\* the Saturdays and Sundays of the local calendar and 1.0 on the other five days
C16_WeekendIsSaturdayAndSunday ==
    epsRet.called =>
        epsRet.f_wk = (IF C16_CalendarDayOfWeek \in {5, 6}
                       THEN epsCfg.weekend_multiplier ELSE FS)

\* only the protection weight is active: weight 1, the other three 0, volatility 1.0
C24_ProtectionOnly ==
    /\ epsCfg.newbie_weight = FS
    /\ epsCfg.seasonal_weight = 0
    /\ epsCfg.weekend_weight = 0
    /\ epsCfg.inflation_weight = 0
    /\ epsCfg.volatility_factor = FS

\* 1 - rate x clamp(1 - playHours / 100, 0, 1) for the evaluation made
C24_Discounted ==
    LET hours_x100 == FDiv(I2F(epsCtx.play_time_seconds), 36 * FS)
        left == FClamp(FSub(FS, FDiv(hours_x100, 10000 * FS)), 0, FS)
    IN  FSub(FS, FMul(epsCfg.newbie_protection_rate, left))

\* a and b are finite and equal to within the resolution of the logarithm here
\* (two steps of 0.001 and 0.2 percent of the value)
C24_Near(a, b) == IsFinite(a) /\ IsFinite(b) /\ Abs(a - b) <= 2 + (Abs(b) \div 500)

\* C24 as stated: with only the protection weight active, epsilon equals
\* 1 - rate x clamp(1 - playHours / 100, 0, 1)
C24_ProtectionDecaysLinearlyForEveryRate ==
    (epsRet.called /\ C24_ProtectionOnly) => C24_Near(epsRet.epsilon, C24_Discounted)

\* C24 as amended: with only the protection weight active and a finite rate,
\* seasonal amplitude, weekend multiplier and inflation rate, epsilon equals
\* 1 - rate x clamp(1 - playHours / 100, 0, 1) brought into [0.1, 10.0]
C24_ProtectionDecaysLinearlyWithinRail ==
    (/\ epsRet.called
     /\ C24_ProtectionOnly
     /\ IsFinite(epsCfg.newbie_protection_rate)
     /\ IsFinite(epsCfg.seasonal_amplitude)
     /\ IsFinite(epsCfg.weekend_multiplier)
     /\ IsFinite(epsCtx.inflation_rate))
        => C24_Near(epsRet.epsilon, FClamp(C24_Discounted, FS \div 10, 10 * FS))

\* a player of 50 hours was priced at a rate of 0.2 with only the protection
\* weight active: the factor is 0.9
C24_Witness ==
    /\ epsRet.called
    /\ C24_ProtectionOnly
    /\ epsCfg.newbie_protection_rate = FS \div 5
    /\ IsFinite(epsCfg.weekend_multiplier)
    /\ epsCtx.inflation_rate = 0
    /\ epsCtx.play_time_seconds = 50 * 3600
    /\ C24_Near(epsRet.epsilon, (9 * FS) \div 10)

\* ------------------------------------------- the lock of the hot window

\* the threads of the host: two that log trades and two that query
Appenders == {"a1", "a2"}
Queriers == {"q1", "q2"}
Threads == Appenders \cup Queriers

NoThread == "none"

\* the RwLock when nobody holds it
RwLockFree == [writer |-> NoThread, readers |-> {}]

\* mutant: a reader gets the lock while a writer holds it
ReadAcquirable_IgnoresWriter(lock) == TRUE

\* RwLock::read returns once no writer holds the lock
ReadAcquirable(lock) == lock.writer = NoThread

\* RwLock::write returns once neither a writer nor a reader holds the lock
WriteAcquirable(lock) == lock.writer = NoThread /\ lock.readers = {}

\* the push of append_trade_to_memory
PushRecord(history, ts, amount) ==
    Append(history, [timestamp |-> ts, amount_micros |-> F2I(FMul(amount, MICROS_SCALE))])

\* the prune of append_trade_to_memory
PruneOverflow(history) ==
    IF Len(history) > MAX_HISTORY_SIZE
    THEN Drain(history, Len(history) - PRUNE_TO_SIZE)
    ELSE history

\* the timestamps the logging threads append, both inside the lookback of the
\* queries, the second past the tolerance
LockTimestamps == {185, 203}

\* the clock and the tau of the queries
LockQueryTime == 200
LockQueryTau == 2 * FS

NothingSeen == [window |-> <<>>, start_idx |-> 0]

LockQuiet ==
    /\ rwLock = RwLockFree
    /\ hotHistory = <<>>
    /\ threadPc = [t \in Threads |-> "idle"]
    /\ threadSeen = [q \in Queriers |-> NothingSeen]
    /\ lockRet = NoQueryResult

\* append_trade_to_memory: HOT_HISTORY.write()
AppendLock(a) ==
    /\ threadPc[a] = "idle"
    /\ WriteAcquirable(rwLock)
    /\ rwLock' = [rwLock EXCEPT !.writer = a]
    /\ threadPc' = [threadPc EXCEPT ![a] = "locked"]
    /\ UNCHANGED <<hotHistory, threadSeen, lockRet>>
    /\ UNCHANGED exceptLock

\* append_trade_to_memory: lock.push(..)
AppendPush(a) ==
    /\ threadPc[a] = "locked"
    /\ \E ts \in LockTimestamps, amount \in TradeAmounts :
         hotHistory' = PushRecord(hotHistory, ts, amount)
    /\ threadPc' = [threadPc EXCEPT ![a] = "pushed"]
    /\ UNCHANGED <<rwLock, threadSeen, lockRet>>
    /\ UNCHANGED exceptLock

\* append_trade_to_memory: the prune, and the guard dropped at the end of the
\* function
AppendPrune(a) ==
    /\ threadPc[a] = "pushed"
    /\ hotHistory' = PruneOverflow(hotHistory)
    /\ rwLock' = [rwLock EXCEPT !.writer = IF @ = a THEN NoThread ELSE @]
    /\ threadPc' = [threadPc EXCEPT ![a] = "idle"]
    /\ UNCHANGED <<threadSeen, lockRet>>
    /\ UNCHANGED exceptLock

\* query_neff_internal: HOT_HISTORY.read()
QueryLock(q) ==
    /\ threadPc[q] = "idle"
    /\ ReadAcquirable(rwLock)
    /\ rwLock' = [rwLock EXCEPT !.readers = @ \cup {q}]
    /\ threadPc' = [threadPc EXCEPT ![q] = "locked"]
    /\ UNCHANGED <<hotHistory, threadSeen, lockRet>>
    /\ UNCHANGED exceptLock

\* calculate_volume_in_memory up to the partition_point: the length of the window
\* and the start of the slice are fixed
QuerySearch(q) ==
    /\ threadPc[q] = "locked"
    /\ \E start_idx \in PartitionPoints(hotHistory,
                            WrapI64(LockQueryTime - LookbackMs(LockQueryTau))) :
         threadSeen' = [threadSeen EXCEPT
                           ![q] = [window |-> hotHistory, start_idx |-> start_idx]]
    /\ threadPc' = [threadPc EXCEPT ![q] = "searched"]
    /\ UNCHANGED <<rwLock, hotHistory, lockRet>>
    /\ UNCHANGED exceptLock

\* calculate_volume_in_memory from the slice on: the sum over the window as it is
\* now, from the start index found, and the guard dropped on return
QuerySum(q) ==
    /\ threadPc[q] = "searched"
    /\ lockRet' = calculate_volume_in_memory(hotHistory, LockQueryTime, LockQueryTau,
                      FALSE,
                      IF threadSeen[q].start_idx > Len(hotHistory)
                      THEN Len(hotHistory) ELSE threadSeen[q].start_idx,
                      FALSE)
    /\ rwLock' = [rwLock EXCEPT !.readers = @ \ {q}]
    /\ threadPc' = [threadPc EXCEPT ![q] = "idle"]
    /\ threadSeen' = [threadSeen EXCEPT ![q] = NothingSeen]
    /\ UNCHANGED hotHistory
    /\ UNCHANGED exceptLock

LockNext ==
    \/ \E a \in Appenders : AppendLock(a) \/ AppendPush(a) \/ AppendPrune(a)
    \/ \E q \in Queriers : QueryLock(q) \/ QuerySearch(q) \/ QuerySum(q)

\* C13: while a query holds the window no append is between its lock and its
\* unlock, so the window a query sums is the one it searched and never one with a
\* record pushed and the prune pending; no two appends are inside at once; two
\* queries may be inside at once
C13_AppendExclusiveQueryShared ==
    /\ \A q \in Queriers :
         threadPc[q] # "idle" =>
            /\ \A a \in Appenders : threadPc[a] = "idle"
            /\ Len(hotHistory) <= MAX_HISTORY_SIZE
            /\ threadPc[q] = "searched" => threadSeen[q].window = hotHistory
    /\ \A a \in Appenders : \A b \in Appenders :
         (a # b /\ threadPc[a] # "idle") => threadPc[b] = "idle"

\* after a query has returned a sum, two queries hold at once a window that an
\* append has filled past its cap and pruned, one of them about to sum it
C13_Witness ==
    /\ threadPc["q1"] = "searched" /\ threadPc["q2"] = "locked"
    /\ rwLock.readers = Queriers
    /\ Len(hotHistory) = PRUNE_TO_SIZE
    /\ hotHistory[PRUNE_TO_SIZE].timestamp = 203
    /\ lockRet.called /\ lockRet.used # {}

\* ------------------------------------------------------------ batch prices

\* the largest batch the boundary accepts (1_000_000 in the program)
MAX_BATCH_COUNT == 3

\* the length of the arrays the caller passes: one more than the largest batch
BatchCap == MAX_BATCH_COUNT + 1

\* the pointers of the call
BatchPointers == {"ctx_ptr", "cfg_ptr", "hist_avgs_ptr", "lambdas_ptr", "results_ptr"}

\* the tuples of the caller's arrays: the defaults at a base price of 100, a dearer
\* item for a new player on a weekend, an item whose seasonal weight is NaN
BatchTuples ==
    {[ctx |-> [TradeContextDefault EXCEPT !.base_price_micros = 1000],
      cfg |-> MarketConfigDefault, hist_avg |-> 0, lambda |-> FS \div 100],
     [ctx |-> [TradeContextDefault EXCEPT !.base_price_micros = 3000,
                                          !.current_timestamp = 10000],
      cfg |-> MarketConfigDefault, hist_avg |-> 100 * FS, lambda |-> FS \div 2],
     [ctx |-> [TradeContextDefault EXCEPT !.base_price_micros = 500],
      cfg |-> [MarketConfigDefault EXCEPT !.seasonal_weight = NaN],
      hist_avg |-> FS, lambda |-> FS \div 100]}

\* the shared volume of the call
BatchVolumes == {0, 5 * FS}

\* a cell of the result buffer the call has not written
Unwritten == [written |-> FALSE, value |-> 0]

NoBatchArgs ==
    [count |-> 0, neff |-> 0, null |-> {},
     tuples |-> [i \in 0..(BatchCap - 1) |->
                    [ctx |-> TradeContextDefault, cfg |-> MarketConfigDefault,
                     hist_avg |-> 0, lambda |-> 0]]]

BatchQuiet ==
    /\ batchArgs = NoBatchArgs
    /\ batchOut = [i \in 0..(BatchCap - 1) |-> Unwritten]
    /\ batchPending = {}
    /\ batchPhase = "idle"
    /\ batchRet = EconStatus.Ok

\* mutant: every evaluation takes the lambda of the first tuple
batch_price_at_FirstLambda(args, i) ==
    compute_price_bounded_internal(args.tuples[i].ctx.base_price_micros, args.neff, 0,
        args.tuples[0].lambda,
        calculate_epsilon_internal(args.tuples[i].ctx, args.tuples[i].cfg),
        args.tuples[i].hist_avg)

\* the closure of compute_batch_prices_internal: the price written at index i
batch_price_at(args, i) ==
    LET ctx == args.tuples[i].ctx
        cfg == args.tuples[i].cfg
        lambda == args.tuples[i].lambda
        hist_avg == args.tuples[i].hist_avg
        epsilon == calculate_epsilon_internal(ctx, cfg)
    IN  compute_price_bounded_internal(ctx.base_price_micros, args.neff, 0, lambda,
                                       epsilon, hist_avg)

\* mutant: the batch size is not looked at
BatchRejected_NoLengthCheck(args) ==
    IF args.null # {} THEN <<TRUE, EconStatus.NullPointer>>
    ELSE IF args.count = 0 THEN <<TRUE, EconStatus.Ok>>
    ELSE <<FALSE, EconStatus.Ok>>

\* the tests of ecobridge_compute_batch_prices before the computation: whether the
\* call returns at once, and with which status
BatchRejected(args) ==
    IF args.null # {} THEN <<TRUE, EconStatus.NullPointer>>
    ELSE IF args.count = 0 THEN <<TRUE, EconStatus.Ok>>
    ELSE IF args.count > MAX_BATCH_COUNT THEN <<TRUE, EconStatus.InvalidLength>>
    ELSE <<FALSE, EconStatus.Ok>>

\* ecobridge_compute_batch_prices is called: the tests, and the indices handed to
\* the workers
BatchCall ==
    /\ batchPhase = "idle"
    /\ \E count \in 0..BatchCap, neff \in BatchVolumes,
          null \in {{}, BatchPointers} \cup {{p} : p \in BatchPointers},
          tuples \in [0..(BatchCap - 1) -> BatchTuples] :
         LET args == [count |-> count, neff |-> neff, null |-> null, tuples |-> tuples]
             rejected == BatchRejected(args)
         IN  /\ batchArgs' = args
             /\ IF rejected[1]
                THEN /\ batchPhase' = "returned"
                     /\ batchRet' = ffi_guard(Returned(rejected[2])).code
                     /\ batchPending' = {}
                ELSE /\ batchPhase' = "running"
                     /\ batchRet' = batchRet
                     /\ batchPending' = 0..(count - 1)
    /\ UNCHANGED batchOut
    /\ UNCHANGED exceptBatch

\* a worker evaluates one index that is left and writes its cell
BatchEvaluate ==
    /\ batchPhase = "running"
    /\ \E i \in batchPending :
         /\ batchOut' = [batchOut EXCEPT
                            ![i] = [written |-> TRUE, value |-> batch_price_at(batchArgs, i)]]
         /\ batchPending' = batchPending \ {i}
    /\ UNCHANGED <<batchArgs, batchPhase, batchRet>>
    /\ UNCHANGED exceptBatch

\* every index is evaluated: the call returns Ok
BatchReturn ==
    /\ batchPhase = "running"
    /\ batchPending = {}
    /\ batchPhase' = "returned"
    /\ batchRet' = ffi_guard(Returned(EconStatus.Ok)).code
    /\ UNCHANGED <<batchArgs, batchOut, batchPending>>
    /\ UNCHANGED exceptBatch

BatchNext == BatchCall \/ BatchEvaluate \/ BatchReturn

\* the price a single bounded evaluation gives for tuple i alone
C14_Single(i) ==
    compute_price_bounded_internal(batchArgs.tuples[i].ctx.base_price_micros,
        batchArgs.neff, 0, batchArgs.tuples[i].lambda,
        calculate_epsilon_internal(batchArgs.tuples[i].ctx, batchArgs.tuples[i].cfg),
        batchArgs.tuples[i].hist_avg)

\* C14: whatever the order in which the workers take the indices, every cell a
\* worker has written holds the price a single bounded evaluation gives for the
\* tuple of that index alone, and when the batch returns every index below count is
\* written
C14_BatchEqualsSingle ==
    /\ \A i \in 0..(BatchCap - 1) :
         batchOut[i].written => (i < batchArgs.count /\ batchOut[i].value = C14_Single(i))
    /\ (batchPhase = "returned" /\ batchRet = EconStatus.Ok) =>
         \A i \in 0..(batchArgs.count - 1) : batchOut[i].written

\* a batch of three tuples is under way, the last index evaluated first: its cell
\* holds the price of its own tuple, which the lambda of the first tuple would not
\* have given
C14_Witness ==
    /\ batchPhase = "running"
    /\ batchArgs.count = 3 /\ batchArgs.neff = 5 * FS
    /\ batchPending = {0, 1}
    /\ batchArgs.tuples[0].lambda = FS \div 100
    /\ batchArgs.tuples[2].lambda = FS \div 2
    /\ batchOut[2].written
    /\ batchOut[2].value = C14_Single(2)
    /\ batchOut[2].value # batch_price_at_FirstLambda(batchArgs, 2)

\* the cells of the result buffer the call has written
C20_Written == {i \in 0..(BatchCap - 1) : batchOut[i].written}

\* C20: a batch call that has returned gave NullPointer for any null pointer, Ok
\* with nothing written for count = 0, InvalidLength with nothing written for a
\* count past the largest batch, and otherwise Ok with exactly the cells below
\* count written
C20_BatchValidates ==
    batchPhase = "returned" =>
        IF batchArgs.null # {}
        THEN batchRet = EconStatus.NullPointer /\ C20_Written = {}
        ELSE IF batchArgs.count = 0
        THEN batchRet = EconStatus.Ok /\ C20_Written = {}
        ELSE IF batchArgs.count > MAX_BATCH_COUNT
        THEN batchRet = EconStatus.InvalidLength /\ C20_Written = {}
        ELSE batchRet = EconStatus.Ok /\ C20_Written = 0..(batchArgs.count - 1)

\* a batch one past the largest has been turned away with nothing written
C20_Witness ==
    /\ batchPhase = "returned"
    /\ batchArgs.null = {}
    /\ batchArgs.count = MAX_BATCH_COUNT + 1
    /\ batchRet = EconStatus.InvalidLength
    /\ C20_Written = {}

\* ------------------------------------------------------------ tier pricing

\* the ends of the tiers, in units (500.0, 1500.0) and their rates (0.85, 0.60)
TIER1_UNITS == 500 * FS
TIER2_UNITS == 1500 * FS
TIER2_RATE == (85 * FS) \div 100
TIER3_RATE == (60 * FS) \div 100

\* mutant: the second tier is as wide as the first
TierTwoWidth_Narrow == TIER1_UNITS

\* the width of the second tier
TierTwoWidth == TIER2_UNITS

\* compute_tier_price_internal
compute_tier_price_internal(base_price, quantity_f64, is_sell) ==
    IF ~is_sell \/ FLe(quantity_f64, TIER1_UNITS) \/ FLe(quantity_f64, 0)
    THEN base_price
    ELSE
    LET t1 == FMinOf(quantity_f64, TIER1_UNITS)
        total1 == FAdd(0, FMul(t1, base_price))
        remaining1 == FSub(quantity_f64, t1)
        t2 == FMinOf(remaining1, TierTwoWidth)
        total2 == IF FGt(remaining1, 0)
                  THEN FAdd(total1, FMul(t2, FMul(base_price, TIER2_RATE)))
                  ELSE total1
        remaining2 == IF FGt(remaining1, 0) THEN FSub(remaining1, t2) ELSE remaining1
        total3 == IF FGt(remaining2, 0)
                  THEN FAdd(total2, FMul(remaining2, FMul(base_price, TIER3_RATE)))
                  ELSE total2
    IN  FDiv(total3, quantity_f64)

\* the base prices of the evaluations: zero, small and large ones, a negative one
\* and non-finite ones
TierBasePrices == {0, 2 * FS, 10 * FS, 100 * FS, -10 * FS, NaN, PInf}

\* the quantities: none and negative, around the end of the first tier, inside the
\* second, around its end, far into the third, and non-finite ones
TierQuantities ==
    {-5 * FS, 0, FS, 499 * FS, 500 * FS, 501 * FS, 1000 * FS, 2000 * FS, 2001 * FS,
     3000 * FS, 5000 * FS, PInf, NaN}

NoTierArgs == [base_price |-> 0, quantity |-> 0, is_sell |-> FALSE]

NoTierResult == [called |-> FALSE, price |-> 0]

TierQuiet ==
    /\ tierArgs = NoTierArgs
    /\ tierRet = NoTierResult

\* one evaluation of compute_tier_price_internal, a pure function
TierPrice ==
    /\ ~tierRet.called
    /\ \E base_price \in TierBasePrices, quantity \in TierQuantities, is_sell \in BOOLEAN :
         /\ tierArgs' = [base_price |-> base_price, quantity |-> quantity,
                         is_sell |-> is_sell]
         /\ tierRet' = [called |-> TRUE,
                        price |-> compute_tier_price_internal(base_price, quantity, is_sell)]
    /\ UNCHANGED exceptTier

TierNext == TierPrice

\* the quantity-weighted average of the claim:
\* (500 x 1.0 + min(q - 500, 1500) x 0.85 + max(q - 2000, 0) x 0.60) x base / q
C17_Average(base, q) ==
    LET second == FMinOf(FSub(q, 500 * FS), 1500 * FS)
        third == FMaxOf(FSub(q, 2000 * FS), 0)
        weight == FAdd(FAdd(500 * FS, FMul(second, (85 * FS) \div 100)),
                       FMul(third, (60 * FS) \div 100))
    IN  FDiv(FMul(weight, base), q)

\* a and b are the same number up to the rounding of the arithmetic
C17_Near(a, b) ==
    \/ a = b
    \/ IsFinite(a) /\ IsFinite(b) /\ Abs(a - b) <= 3

\* p lies between 0.60 x base and base
C17_Between(p, base) ==
    LET low == FMul(base, (60 * FS) \div 100)
    IN  \/ FLe(low, p) /\ FLe(p, base)
        \/ FLe(base, p) /\ FLe(p, low)
        \/ IsFinite(p) /\ IsFinite(low) /\ p < low /\ low - p <= 3

\* what the claim says of a sale of more than 500 units at the arguments of the
\* last evaluation, compared with the sales of the larger quantities in qs
C17_SaleOverFirstTier(qs) ==
    /\ C17_Near(tierRet.price, C17_Average(tierArgs.base_price, tierArgs.quantity))
    /\ C17_Between(tierRet.price, tierArgs.base_price)
    /\ \A q2 \in qs :
         FGt(q2, tierArgs.quantity) =>
            FLe(compute_tier_price_internal(tierArgs.base_price, q2, TRUE), tierRet.price)

\* C17 as stated: the base price comes back unchanged for a buy or a quantity of at
\* most 500; a sale of q > 500 returns the weighted average of the three tiers,
\* which lies between 0.60 x base and base and never increases as q grows
C17_TierAverageForEveryInput ==
    tierRet.called =>
        /\ (~tierArgs.is_sell \/ FLe(tierArgs.quantity, 500 * FS))
              => tierRet.price = tierArgs.base_price
        /\ (tierArgs.is_sell /\ FGt(tierArgs.quantity, 500 * FS))
              => C17_SaleOverFirstTier(TierQuantities)

\* C17 amended: the base price comes back unchanged for a buy or a quantity of at
\* most 500; for a finite base price that is not negative, a sale of a finite
\* q > 500 returns the weighted average of the three tiers, which lies between
\* 0.60 x base and base and never increases as q grows through the finite
\* quantities
C17_TierAverageForFinitePrices ==
    tierRet.called =>
        /\ (~tierArgs.is_sell \/ FLe(tierArgs.quantity, 500 * FS))
              => tierRet.price = tierArgs.base_price
        /\ (/\ tierArgs.is_sell /\ FGt(tierArgs.quantity, 500 * FS)
            /\ IsFinite(tierArgs.quantity)
            /\ IsFinite(tierArgs.base_price) /\ tierArgs.base_price >= 0)
              => C17_SaleOverFirstTier({q \in TierQuantities : IsFinite(q)})

\* a sale of 3000 units at a base price of 10 has been priced through all three
\* tiers, at about 7.92
C17_Witness ==
    /\ tierRet.called
    /\ tierArgs.is_sell /\ tierArgs.quantity = 3000 * FS /\ tierArgs.base_price = 10 * FS
    /\ tierRet.price < 8 * FS /\ tierRet.price > 7 * FS
    /\ C17_Near(tierRet.price, C17_Average(10 * FS, 3000 * FS))

\* ------------------------------------------------------- macro indicators

\* calculate_inflation_rate
calculate_inflation_rate(current_heat, m1_supply) ==
    IF FLe(m1_supply, FS)
    THEN 0
    ELSE LET raw_rate == FDiv(current_heat, m1_supply)
         IN  FClamp(raw_rate, 0 - ((15 * FS) \div 100), (45 * FS) \div 100)

NoMacroResult == [called |-> FALSE, panicked |-> FALSE, value |-> 0]

MacroReturned(value) == [called |-> TRUE, panicked |-> FALSE, value |-> value]

\* calculate_stability.  checks is the build's overflow-checks setting: the
\* subtraction of the two timestamps is plain i64 arithmetic, which panics on
\* overflow with the checks and wraps without them
calculate_stability(last_volatile_ts, current_ts, recovery_window_ms, checks) ==
    LET elapsed == current_ts - last_volatile_ts
        diff == I2F(WrapI64(elapsed))
    IN  IF last_volatile_ts <= 0
        THEN MacroReturned(FS)
        ELSE IF checks /\ OverflowsI64(elapsed)
        THEN [NoMacroResult EXCEPT !.called = TRUE, !.panicked = TRUE]
        ELSE IF FLt(diff, 0)
        THEN MacroReturned(FS)
        ELSE MacroReturned(FClamp(FDiv(diff, recovery_window_ms), 0, FS))

\* mutant: a heat of exactly 1.0 is zeroed too
DecayZeroes_Inclusive(current_heat) == FLe(FAbs(current_heat), FS)

\* the zeroing threshold of calculate_decay: current_heat.abs() < 1.0
DecayZeroes(current_heat) == FLt(FAbs(current_heat), FS)

\* calculate_decay
calculate_decay(current_heat, daily_decay_rate, cycles_per_day) ==
    IF DecayZeroes(current_heat)
    THEN current_heat
    ELSE LET per_cycle_rate == FDiv(daily_decay_rate, cycles_per_day)
         IN  FMul(current_heat, per_cycle_rate)

\* the heats of the evaluations: deflating and inflating flows, the flows of
\* the tests (100.0 and 5000.0) and non-finite ones
InflationHeats ==
    {-500 * FS, -100 * FS, 0, 100 * FS, 300 * FS, 5000 * FS, NaN, PInf, NInf}

\* the money supplies: negative, none, below, at and just above the guard of
\* 1.0, the supply of the tests (1000.0) and non-finite ones
MoneySupplies == {-1000 * FS, 0, FS \div 2, FS, FS + 1, 1000 * FS, NaN, PInf}

\* the timestamps of the last volatile event: negative, never (0), the first
\* ms, the one of the tests and the largest
LastVolatileTimes == {-5, 0, 1, 1000, I64_MAX}

\* the clocks: the smallest, before the epoch, before, at and after the event
\* of the tests, and the largest
StabilityClocks == {I64_MIN, -1, 0, 999, 1000, 1500, 2500, I64_MAX}

\* the recovery windows: the one of the tests (1000.0 ms), none, a negative
\* one, one longer than any elapsed time, and non-finite ones
RecoveryWindows == {1000 * FS, 0, -1000 * FS, 200000 * FS, NaN, PInf}

\* the heats to decay: none, below, just below and at the threshold on both
\* sides, the heat of the tests (1000.0) and non-finite ones
DecayHeats ==
    {0, FS \div 2, 0 - (FS \div 2), FS - 1, FS, 0 - FS, 1000 * FS, -1000 * FS,
     NaN, PInf}

\* the daily rates (0.48, 0.05, 0.24, none, a negative one, NaN) and the
\* cycles per day (48.0, 50.0, none, NaN)
DecayRates == {(48 * FS) \div 100, (5 * FS) \div 100, (24 * FS) \div 100, 0,
               0 - ((48 * FS) \div 100), NaN}
DecayCycles == {48 * FS, 50 * FS, 0, NaN}

NoMacroCall == [op |-> "none", args |-> <<>>, checks |-> FALSE]

MacroQuiet ==
    /\ macroCall = NoMacroCall
    /\ macroRet = NoMacroResult

\* one evaluation of calculate_inflation_rate, a pure function
CalcInflation ==
    /\ ~macroRet.called
    /\ \E current_heat \in InflationHeats, m1 \in MoneySupplies :
         /\ macroCall' = [op |-> "inflation", args |-> <<current_heat, m1>>,
                          checks |-> FALSE]
         /\ macroRet' = MacroReturned(calculate_inflation_rate(current_heat, m1))
    /\ UNCHANGED exceptMacro

\* one evaluation of calculate_stability, in a build with or without overflow
\* checks
CalcStability ==
    /\ ~macroRet.called
    /\ \E last_ts \in LastVolatileTimes, curr_ts \in StabilityClocks,
          recovery_window_ms \in RecoveryWindows, checks \in BOOLEAN :
         /\ macroCall' = [op |-> "stability", args |-> <<last_ts, curr_ts, recovery_window_ms>>,
                          checks |-> checks]
         /\ macroRet' = calculate_stability(last_ts, curr_ts, recovery_window_ms, checks)
    /\ UNCHANGED exceptMacro

\* one evaluation of calculate_decay, a pure function
CalcDecay ==
    /\ ~macroRet.called
    /\ \E heat \in DecayHeats, rate \in DecayRates, cycles \in DecayCycles :
         /\ macroCall' = [op |-> "decay", args |-> <<heat, rate, cycles>>,
                          checks |-> FALSE]
         /\ macroRet' = MacroReturned(calculate_decay(heat, rate, cycles))
    /\ UNCHANGED exceptMacro

MacroNext ==
    \/ CalcInflation
    \/ CalcStability
    \/ CalcDecay

\* C21 as stated: calculate_stability returns for every pair of timestamps; it
\* returns 1.0 when last <= 0 or now < last, and otherwise the elapsed time over
\* the window, clamped to [0, 1]; the result always lies in [0, 1]
C21_StabilityInUnitInterval ==
    (macroCall.op = "stability") =>
        LET last == macroCall.args[1]
            now == macroCall.args[2]
            recovery == macroCall.args[3]
        IN  /\ macroRet.called /\ ~macroRet.panicked
            /\ (last <= 0 \/ now < last) => macroRet.value = FS
            /\ ~(last <= 0 \/ now < last) =>
                   macroRet.value = FClamp(FDiv(I2F(now - last), recovery), 0, FS)
            /\ FLe(0, macroRet.value) /\ FLe(macroRet.value, FS)

\* a and b are the same special value, or finite and no further apart than tol
C22_Near(a, b, tol) ==
    IF IsFinite(a) /\ IsFinite(b) THEN Abs(a - b) <= tol ELSE a = b

\* C22: calculate_decay returns heat x dailyRate / cyclesPerDay when |heat| >= 1.0
\* (here the product divided by the cycles, to within the resolution the
\* per-cycle rate has as a fixed-point number), and the whole heat when
\* |heat| < 1.0, so that heat minus the decrement is exactly 0
C22_DecayZeroesBelowThreshold ==
    (macroCall.op = "decay") =>
        LET heat == macroCall.args[1]
            rate == macroCall.args[2]
            cycles == macroCall.args[3]
        IN  /\ FGe(FAbs(heat), FS) =>
                   C22_Near(macroRet.value, FDiv(FMul(heat, rate), cycles),
                            (Abs(heat) \div FS) + 1)
            /\ FLt(FAbs(heat), FS) =>
                   /\ macroRet.value = heat
                   /\ FSub(heat, macroRet.value) = 0

\* a heat of 0.5 was decayed at 0.05 a day in 48 cycles: the decrement is the
\* whole 0.5 and nothing is left
C22_Witness ==
    /\ macroCall = [op |-> "decay", args |-> <<FS \div 2, (5 * FS) \div 100, 48 * FS>>,
                    checks |-> FALSE]
    /\ macroRet.value = FS \div 2
    /\ FSub(macroCall.args[1], macroRet.value) = 0

\* C23 as stated: calculate_inflation_rate returns 0 when m1 <= 1.0 and heat / m1
\* clamped to [-0.15, 0.45] otherwise, so the result always lies in [-0.15, 0.45]
C23_InflationInRange ==
    (macroCall.op = "inflation") =>
        LET heat == macroCall.args[1]
            m1 == macroCall.args[2]
            lo == 0 - ((15 * FS) \div 100)
            hi == (45 * FS) \div 100
        IN  /\ FLe(m1, FS) => macroRet.value = 0
            /\ ~FLe(m1, FS) => macroRet.value = FClamp(FDiv(heat, m1), lo, hi)
            /\ FLe(lo, macroRet.value) /\ FLe(macroRet.value, hi)

\* ------------------------------------------------- the durable event log

\* the timestamp of the shutdown signal
SHUTDOWN_TS == -1

\* the slots of the writer's channel (bounded(50_000)) and the events the
\* writer batches before a flush (1024), scaled down
LOG_QUEUE_SLOTS == 2
WRITER_BATCH == 2

\* GLOBAL_HISTORY is cut back to GLOBAL_HISTORY_KEEP records (400_000) when it
\* passes GLOBAL_HISTORY_CAP (500_000), scaled down
GLOBAL_HISTORY_CAP == 3
GLOBAL_HISTORY_KEEP == 2

\* the calls of log_economy_event and of shutdown_db_internal in a run
MaxLogs == 3
MaxShutdowns == 1

\* the timestamps the host logs events with: an ordinary one and -1
LogTimestamps == {7, SHUTDOWN_TS}

\* the rows of economy_log that init_economy_db preloads: none, or one row
PreloadRows == {<<>>, <<3>>}

NoLogCall ==
    [called |-> FALSE, sender |-> FALSE, queued |-> FALSE, dropped_by |-> 0, total_by |-> 0]

StorageQuiet ==
    /\ logSender = FALSE
    /\ logQueue = <<>>
    /\ totalLogs = 0
    /\ droppedLogs = 0
    /\ globalHistory = <<>>
    /\ writerPc = "unspawned"
    /\ writerBuffer = <<>>
    /\ dbRows = <<>>
    /\ logLast = NoLogCall
    /\ signalled = [calls |-> 0, sent |-> FALSE, before |-> {}]
    /\ storeRet = 0

\* the receiving end of the channel is gone once writer_loop has returned
ReceiverDropped == writerPc = "done"

\* sender.try_send succeeds: the receiver lives and a slot is free
TrySendAccepted(queue) == ~ReceiverDropped /\ Len(queue) < LOG_QUEUE_SLOTS

\* the push of log_economy_event on GLOBAL_HISTORY and its cut
PushGlobalHistory(hist, ts) ==
    LET pushed == Append(hist, ts)
    IN  IF Len(pushed) > GLOBAL_HISTORY_CAP
        THEN SubSeq(pushed, Len(pushed) - GLOBAL_HISTORY_KEEP + 1, Len(pushed))
        ELSE pushed

\* init_economy_db failing to open the database or to create the table: -4 or
\* -5, and LOG_SENDER stays unset
InitEconomyDbFails ==
    /\ ~logSender
    /\ \E code \in {-4, -5} : storeRet' = code
    /\ UNCHANGED <<logSender, logQueue, totalLogs, droppedLogs, globalHistory, writerPc,
                   writerBuffer, dbRows, logLast, signalled>>
    /\ UNCHANGED exceptStorage

\* init_economy_db succeeding: the recent rows are loaded into GLOBAL_HISTORY,
\* the writer thread is spawned and LOG_SENDER is set
InitEconomyDb ==
    /\ ~logSender
    /\ \E rows \in PreloadRows : globalHistory' = globalHistory \o rows
    /\ writerPc' = "recv"
    /\ logSender' = TRUE
    /\ storeRet' = 0
    /\ UNCHANGED <<logQueue, totalLogs, droppedLogs, writerBuffer, dbRows, logLast,
                   signalled>>
    /\ UNCHANGED exceptStorage

\* log_economy_event
LogEconomyEvent ==
    /\ totalLogs < MaxLogs
    /\ \E ts \in LogTimestamps :
         LET event == [id |-> totalLogs + 1, ts |-> ts]
             accepted == logSender /\ TrySendAccepted(logQueue)
             refused == logSender /\ ~TrySendAccepted(logQueue)
         IN  /\ totalLogs' = totalLogs + 1
             /\ globalHistory' = PushGlobalHistory(globalHistory, ts)
             /\ logQueue' = IF accepted THEN Append(logQueue, event) ELSE logQueue
             /\ droppedLogs' = IF refused THEN droppedLogs + 1 ELSE droppedLogs
             /\ logLast' = [called |-> TRUE, sender |-> logSender, queued |-> accepted,
                            dropped_by |-> IF refused THEN 1 ELSE 0, total_by |-> 1]
    /\ UNCHANGED <<logSender, writerPc, writerBuffer, dbRows, signalled, storeRet>>
    /\ UNCHANGED exceptStorage

\* shutdown_db_internal with LOG_SENDER unset, or with the receiver gone: -1
ShutdownDbFails ==
    /\ signalled.calls < MaxShutdowns
    /\ ~logSender \/ ReceiverDropped
    /\ signalled' = [signalled EXCEPT !.calls = @ + 1]
    /\ storeRet' = -1
    /\ UNCHANGED <<logSender, logQueue, totalLogs, droppedLogs, globalHistory, writerPc,
                   writerBuffer, dbRows, logLast>>
    /\ UNCHANGED exceptStorage

\* shutdown_db_internal: sender.send puts the signal on the queue, waiting for
\* a free slot
ShutdownDb ==
    /\ signalled.calls < MaxShutdowns
    /\ logSender /\ ~ReceiverDropped
    /\ Len(logQueue) < LOG_QUEUE_SLOTS
    /\ logQueue' = Append(logQueue, [id |-> 0, ts |-> SHUTDOWN_TS])
    /\ signalled' = [calls |-> signalled.calls + 1, sent |-> TRUE,
                     before |-> {e.id : e \in {logQueue[i] : i \in 1..Len(logQueue)}
                                          \cup {writerBuffer[i] : i \in 1..Len(writerBuffer)}}]
    /\ storeRet' = 0
    /\ UNCHANGED <<logSender, totalLogs, droppedLogs, globalHistory, writerPc,
                   writerBuffer, dbRows, logLast>>
    /\ UNCHANGED exceptStorage

\* writer_loop, rx.recv() returning an event: it opens a batch
WriterRecv ==
    /\ writerPc = "recv"
    /\ logQueue # <<>>
    /\ Head(logQueue).ts # SHUTDOWN_TS
    /\ writerBuffer' = <<Head(logQueue)>>
    /\ logQueue' = Tail(logQueue)
    /\ writerPc' = "drain"
    /\ UNCHANGED <<logSender, totalLogs, droppedLogs, globalHistory, dbRows, logLast,
                   signalled, storeRet>>
    /\ UNCHANGED exceptStorage

\* writer_loop, rx.recv() returning a message with ts = -1: the loop is left,
\* the buffer is empty and the thread ends
WriterStop ==
    /\ writerPc = "recv"
    /\ logQueue # <<>>
    /\ Head(logQueue).ts = SHUTDOWN_TS
    /\ logQueue' = Tail(logQueue)
    /\ writerPc' = "done"
    /\ UNCHANGED <<logSender, totalLogs, droppedLogs, globalHistory, writerBuffer,
                   dbRows, logLast, signalled, storeRet>>
    /\ UNCHANGED exceptStorage

\* writer_loop, one turn of the inner loop: the batch is full, or try_recv
\* finds nothing, an event, or a message with ts = -1 (which it takes off the
\* queue and leaves the inner loop on)
WriterTryRecv ==
    /\ writerPc = "drain"
    /\ IF Len(writerBuffer) >= WRITER_BATCH \/ logQueue = <<>>
       THEN /\ writerPc' = "flush"
            /\ UNCHANGED <<logQueue, writerBuffer>>
       ELSE IF Head(logQueue).ts # SHUTDOWN_TS
       THEN /\ writerBuffer' = Append(writerBuffer, Head(logQueue))
            /\ logQueue' = Tail(logQueue)
            /\ writerPc' = "drain"
       ELSE /\ logQueue' = Tail(logQueue)
            /\ writerPc' = "flush"
            /\ UNCHANGED writerBuffer
    /\ UNCHANGED <<logSender, totalLogs, droppedLogs, globalHistory, dbRows, logLast,
                   signalled, storeRet>>
    /\ UNCHANGED exceptStorage

\* flush_buffer_to_db: the batch is committed; or the transaction or the
\* appender cannot be opened and the batch is counted as dropped; or the commit
\* fails and the batch is lost uncounted.  The writer goes back to rx.recv()
WriterFlush ==
    /\ writerPc = "flush"
    /\ \E outcome \in {"committed", "refused", "commit_failed"} :
         /\ dbRows' = IF outcome = "committed" THEN dbRows \o writerBuffer ELSE dbRows
         /\ droppedLogs' = IF outcome = "refused"
                           THEN droppedLogs + Len(writerBuffer)
                           ELSE droppedLogs
    /\ writerBuffer' = <<>>
    /\ writerPc' = "recv"
    /\ UNCHANGED <<logSender, logQueue, totalLogs, globalHistory, logLast, signalled,
                   storeRet>>
    /\ UNCHANGED exceptStorage

\* the steps of the writer thread
WriterNext ==
    \/ WriterRecv
    \/ WriterStop
    \/ WriterTryRecv
    \/ WriterFlush

StorageNext ==
    \/ InitEconomyDbFails
    \/ InitEconomyDb
    \/ LogEconomyEvent
    \/ ShutdownDbFails
    \/ ShutdownDb
    \/ WriterNext

\* C25 as stated: a call of log_economy_event adds one to the total, and either
\* the event is accepted into the queue or the dropped counter goes up by one,
\* never both and never neither; dropped <= total in every state
C25_EveryEventQueuedOrCounted ==
    /\ droppedLogs <= totalLogs
    /\ logLast.called =>
          /\ logLast.total_by = 1
          /\ logLast.queued \/ logLast.dropped_by = 1
          /\ ~(logLast.queued /\ logLast.dropped_by = 1)

\* the events that are on the queue or in the writer's buffer
C30_Pending ==
    {logQueue[i].id : i \in 1..Len(logQueue)}
        \cup {writerBuffer[i].id : i \in 1..Len(writerBuffer)}

\* C30 as stated: once shutdown_db_internal has put its signal on the queue, the
\* writer eventually has flushed every event queued before the signal and has
\* terminated
C30_WriterFlushesAndStops ==
    signalled.sent ~> (writerPc = "done" /\ signalled.before \cap C30_Pending = {})

\* ------------------------------------------------------- specifications

\* the components do not share state: each specification runs one of them and
\* leaves the others in their initial state
PidQuiet ==
    /\ pidState = PidStateDefault
    /\ pidArgs = <<0, 0, 0, 0, 0>>
    /\ pidRet = 0
    /\ ticks = 0

XferQuiet ==
    /\ xferCtx = TransferContextDefault
    /\ xferCfg = RegulatorConfigDefault
    /\ xferChecks = FALSE
    /\ xferRes = NoTransferResult

InitPid ==
    /\ PidInit
    /\ XferQuiet
    /\ PriceQuiet
    /\ WindowQuiet
    /\ BoundaryQuiet
    /\ EpsilonQuiet
    /\ LockQuiet
    /\ BatchQuiet
    /\ TierQuiet
    /\ MacroQuiet
    /\ StorageQuiet

SpecPid == InitPid /\ [][PidNext]_vars

InitSustained ==
    /\ SustainedInit
    /\ XferQuiet
    /\ PriceQuiet
    /\ WindowQuiet
    /\ BoundaryQuiet
    /\ EpsilonQuiet
    /\ LockQuiet
    /\ BatchQuiet
    /\ TierQuiet
    /\ MacroQuiet
    /\ StorageQuiet

SpecSustained == InitSustained /\ [][SustainedNext]_vars

InitXfer ==
    /\ XferInit
    /\ PidQuiet
    /\ PriceQuiet
    /\ WindowQuiet
    /\ BoundaryQuiet
    /\ EpsilonQuiet
    /\ LockQuiet
    /\ BatchQuiet
    /\ TierQuiet
    /\ MacroQuiet
    /\ StorageQuiet

XferNext == TransferCheck

SpecXfer == InitXfer /\ [][XferNext]_vars

InitPrice ==
    /\ PriceQuiet
    /\ PidQuiet
    /\ XferQuiet
    /\ WindowQuiet
    /\ BoundaryQuiet
    /\ EpsilonQuiet
    /\ LockQuiet
    /\ BatchQuiet
    /\ TierQuiet
    /\ MacroQuiet
    /\ StorageQuiet

PriceNext == PriceBounded

SpecPrice == InitPrice /\ [][PriceNext]_vars

InitWindow ==
    /\ WindowQuiet
    /\ PidQuiet
    /\ XferQuiet
    /\ PriceQuiet
    /\ BoundaryQuiet
    /\ EpsilonQuiet
    /\ LockQuiet
    /\ BatchQuiet
    /\ TierQuiet
    /\ MacroQuiet
    /\ StorageQuiet

SpecWindow == InitWindow /\ [][WindowNext]_vars

InitBoundary ==
    /\ BoundaryQuiet
    /\ PidQuiet
    /\ XferQuiet
    /\ PriceQuiet
    /\ WindowQuiet
    /\ EpsilonQuiet
    /\ LockQuiet
    /\ BatchQuiet
    /\ TierQuiet
    /\ MacroQuiet
    /\ StorageQuiet

SpecBoundary == InitBoundary /\ [][BoundaryNext]_vars

InitEpsilon ==
    /\ EpsilonQuiet
    /\ PidQuiet
    /\ XferQuiet
    /\ PriceQuiet
    /\ WindowQuiet
    /\ BoundaryQuiet
    /\ LockQuiet
    /\ BatchQuiet
    /\ TierQuiet
    /\ MacroQuiet
    /\ StorageQuiet

SpecEpsilon == InitEpsilon /\ [][EpsilonNext]_vars

InitLock ==
    /\ LockQuiet
    /\ PidQuiet
    /\ XferQuiet
    /\ PriceQuiet
    /\ WindowQuiet
    /\ BoundaryQuiet
    /\ EpsilonQuiet
    /\ BatchQuiet
    /\ TierQuiet
    /\ MacroQuiet
    /\ StorageQuiet

SpecLock == InitLock /\ [][LockNext]_vars

InitBatch ==
    /\ BatchQuiet
    /\ PidQuiet
    /\ XferQuiet
    /\ PriceQuiet
    /\ WindowQuiet
    /\ BoundaryQuiet
    /\ EpsilonQuiet
    /\ LockQuiet
    /\ TierQuiet
    /\ MacroQuiet
    /\ StorageQuiet

SpecBatch == InitBatch /\ [][BatchNext]_vars

InitTier ==
    /\ TierQuiet
    /\ BatchQuiet
    /\ PidQuiet
    /\ XferQuiet
    /\ PriceQuiet
    /\ WindowQuiet
    /\ BoundaryQuiet
    /\ EpsilonQuiet
    /\ LockQuiet
    /\ MacroQuiet
    /\ StorageQuiet

SpecTier == InitTier /\ [][TierNext]_vars

InitMacro ==
    /\ MacroQuiet
    /\ TierQuiet
    /\ BatchQuiet
    /\ PidQuiet
    /\ XferQuiet
    /\ PriceQuiet
    /\ WindowQuiet
    /\ BoundaryQuiet
    /\ EpsilonQuiet
    /\ LockQuiet
    /\ StorageQuiet

SpecMacro == InitMacro /\ [][MacroNext]_vars

InitStorage ==
    /\ StorageQuiet
    /\ MacroQuiet
    /\ TierQuiet
    /\ BatchQuiet
    /\ PidQuiet
    /\ XferQuiet
    /\ PriceQuiet
    /\ WindowQuiet
    /\ BoundaryQuiet
    /\ EpsilonQuiet
    /\ LockQuiet

\* the writer is a thread of its own: it takes its next step whenever it has one
SpecStorage == InitStorage /\ [][StorageNext]_vars /\ WF_vars(WriterNext)

====
